---- MODULE Spec2Model ----
(***************************************************************************)
(* Pointer/usermode state machine of the vacia canvas application          *)
(* (App.tsx), together with the geometry utilities it calls.               *)
(*                                                                         *)
(* Units: virtual and screen coordinates are whole pixels.  The zoom       *)
(* factor is stored in tenths (zoom = 10 is a zoom factor of 1.0), so that *)
(* ZOOM_STEP = 0.1 is one unit.  Rotation is stored in quarter turns.      *)
(* Element references of the program are identities: an element is named   *)
(* by its index in `store`, the collection of every element object ever    *)
(* created; `elements` is the ordered scene of the ElementLayer.           *)
(***************************************************************************)
EXTENDS Integers, Sequences, FiniteSets, TLC

\* ---------------------------------------------------------------- bounds
\* number of element objects that may be created in one run
MaxElements == 2
\* number of points a freedraw path may hold
MaxPath == 2
\* the canvas may be panned by up to MaxScroll pixels either way
MaxScroll == 20
\* number of presses of the primary button handled in one run
MaxGestures == 1
\* zooming may move the pan by up to MaxZoomPan pixels either way
MaxZoomPan == 4
\* number of boxes the geometry utilities are applied to at a time
MaxBoxes == 2
\* number of points of the path of a stroke drawn on the empty canvas
MaxStroke == 3

\* ------------------------------------------------------------- constants
SELECTION_PADDING == 3
SELECTION_HANDLE_SIZE == 8
SELECTION_ROTATE_HANDLE_OFFSET == 15
\* zoom factors, in tenths: 0.1, 50 and 0.1
ZOOM_STEP == 1
MAX_ZOOM == 500
MIN_ZOOM == 1

\* the null element reference (element identities start at 1)
NoElement == 0
\* null for record-valued slots (pointer, transform handle, highlight, menu)
NULL == [null |-> TRUE]

IDLE == "IDLE"
CREATING == "CREATING"
DRAGGING == "DRAGGING"
RESIZING == "RESIZING"
ROTATING == "ROTATING"
USERMODE == {IDLE, CREATING, DRAGGING, RESIZING, ROTATING}

ToolLabel == {"Hand", "Selection", "Rectangle", "Ellipse", "Freedraw", "Text"}

\* the screen positions pointer events arrive at
PointerPositions ==
  { <<0, 20>>, <<20, 40>>, <<20, 0>>, <<80, 0>>, <<60, 40>> }
\* pointer events: position, modifier keys and pressed buttons
PointerEvents ==
  { [clientX |-> p[1], clientY |-> p[2], shiftKey |-> shift, ctrlKey |-> ctrl,
     buttons |-> 1] :
      p \in PointerPositions, shift \in BOOLEAN, ctrl \in BOOLEAN }
  \cup
  { [clientX |-> p[1], clientY |-> p[2], shiftKey |-> FALSE, ctrlKey |-> FALSE,
     buttons |-> 2] : p \in PointerPositions }

Texts == {"", "a"}

\* wheel events: position, modifier keys and vertical scroll amount
WheelEvents ==
  { [clientX |-> p[1], clientY |-> p[2], ctrlKey |-> ctrl, metaKey |-> meta,
     deltaY |-> deltaY] :
      p \in {<<0, 0>>, <<20, 0>>}, ctrl \in BOOLEAN, meta \in BOOLEAN,
      deltaY \in {-100, 0, 100} }

VARIABLES
  store,                 \* every element object created so far, by identity
  elements,              \* ElementLayer: scene order (sequence of identities)
  selectedElements,      \* ElementLayer: selection set (set of identities)
  editingElement,        \* App.editingElement
  transformingElements,  \* App.transformingElements
  pointer,               \* App.pointer
  activeTool,            \* state.activeTool
  usermode,              \* state.usermode
  zoom,                  \* state.zoom, in tenths
  scrollOffset,          \* state.scrollOffset
  grid,                  \* state.grid
  selectionHighlight,    \* state.selectionHighlight
  contextMenu,           \* state.contextMenu
  gestures               \* presses of the primary button handled so far

\* the state of the application
app == <<store, elements, selectedElements, editingElement,
         transformingElements, pointer, activeTool, usermode, zoom,
         scrollOffset, grid, selectionHighlight, contextMenu>>
vars == <<app, gestures>>

\* ---------------------------------------------------------------- helpers
XY(x, y) == [x |-> x, y |-> y]
Min(a, b) == IF a <= b THEN a ELSE b
Max(a, b) == IF a >= b THEN a ELSE b
Abs(a) == IF a < 0 THEN -a ELSE a
SetMin(S) == CHOOSE m \in S : \A n \in S : m <= n
SetMax(S) == CHOOSE m \in S : \A n \in S : m >= n
Range(s) == {s[i] : i \in DOMAIN s}
\* Math.round: to the nearest integer, halves toward plus infinity
RoundDiv(a, b) == (2 * a + b) \div (2 * b)
\* cos and sin of a rotation given in quarter turns
Cos(q) == CASE q % 4 = 0 -> 1 [] q % 4 = 1 -> 0 [] q % 4 = 2 -> -1 [] OTHER -> 0
Sin(q) == CASE q % 4 = 0 -> 0 [] q % 4 = 1 -> 1 [] q % 4 = 2 -> 0 [] OTHER -> -1

\* --------------------------------------------------------------- viewport
screenOffsetToVirtualOffset(p) ==
  XY(((p.x - scrollOffset.x) * 10) \div zoom,
     ((p.y - scrollOffset.y) * 10) \div zoom)

snapVirtualCoordsToGrid(p) ==
  IF grid.snap
  THEN XY(RoundDiv(p.x, grid.size) * grid.size,
          RoundDiv(p.y, grid.size) * grid.size)
  ELSE XY(p.x, p.y)

\* ------------------------------------------------------------------ utils
\* invertNegativeBoundingBox that reports the flips and leaves the box as it is
invertNegativeBoundingBoxFlagsOnly(box) ==
  [didFlipX |-> box.w < 0, didFlipY |-> box.h < 0,
   box |-> [x |-> box.x, y |-> box.y, w |-> box.w, h |-> box.h]]

\* invertNegativeBoundingBox that leaves the origin of the box where it was
invertNegativeBoundingBoxInPlace(box) ==
  [didFlipX |-> box.w < 0, didFlipY |-> box.h < 0,
   box |-> [x |-> box.x, y |-> box.y, w |-> Abs(box.w), h |-> Abs(box.h)]]

invertNegativeBoundingBox(box) ==
  LET w == IF box.w < 0 THEN -box.w ELSE box.w
      h == IF box.h < 0 THEN -box.h ELSE box.h
      x == IF box.w < 0 THEN box.x - w ELSE box.x
      y == IF box.h < 0 THEN box.y - h ELSE box.y
  IN [didFlipX |-> box.w < 0, didFlipY |-> box.h < 0,
      box |-> [x |-> x, y |-> y, w |-> w, h |-> h]]

rotatePointAroundAnchor(x1, y1, x2, y2, angle) ==
  XY(Cos(angle) * (x1 - x2) - Sin(angle) * (y1 - y2) + x2,
     Sin(angle) * (x1 - x2) + Cos(angle) * (y1 - y2) + y2)

\* The four corners nw, ne, sw, se of a rotated box.  The centre of a box
\* lies on a half pixel, so the corners are computed and returned doubled.
\* getRotatedBoxCoords that returns the top left corner four times
getRotatedBoxCoordsTopLeft(box) ==
  LET nw == XY(2 * box.x, 2 * box.y)
  IN <<nw, nw, nw, nw>>

getRotatedBoxCoords(box) ==
  LET x1 == 2 * box.x
      x2 == x1 + 2 * box.w
      y1 == 2 * box.y
      y2 == y1 + 2 * box.h
      cx == (x1 + x2) \div 2
      cy == (y1 + y2) \div 2
  IN << rotatePointAroundAnchor(x1, y1, cx, cy, box.rotate),
        rotatePointAroundAnchor(x2, y1, cx, cy, box.rotate),
        rotatePointAroundAnchor(x1, y2, cx, cy, box.rotate),
        rotatePointAroundAnchor(x2, y2, cx, cy, box.rotate) >>

\* getSurroundingBoundingBox without the case of a single box
getSurroundingBoundingBoxOfCorners(boxes) ==
  IF Len(boxes) < 1 THEN [x |-> 0, y |-> 0, w |-> 0, h |-> 0, rotate |-> 0]
  ELSE LET corners == UNION {Range(getRotatedBoxCoords(boxes[i])) :
                              i \in DOMAIN boxes}
           x1 == SetMin({c.x : c \in corners})
           y1 == SetMin({c.y : c \in corners})
           x2 == SetMax({c.x : c \in corners})
           y2 == SetMax({c.y : c \in corners})
       IN [x |-> x1 \div 2, y |-> y1 \div 2, w |-> (x2 - x1) \div 2,
           h |-> (y2 - y1) \div 2, rotate |-> 0]

getSurroundingBoundingBox(boxes) ==
  IF Len(boxes) < 1 THEN [x |-> 0, y |-> 0, w |-> 0, h |-> 0, rotate |-> 0]
  ELSE IF Len(boxes) = 1
  THEN [x |-> boxes[1].x, y |-> boxes[1].y, w |-> boxes[1].w,
        h |-> boxes[1].h, rotate |-> boxes[1].rotate]
  ELSE LET corners == UNION {Range(getRotatedBoxCoords(boxes[i])) :
                              i \in DOMAIN boxes}
           x1 == SetMin({c.x : c \in corners})
           y1 == SetMin({c.y : c \in corners})
           x2 == SetMax({c.x : c \in corners})
           y2 == SetMax({c.y : c \in corners})
       IN [x |-> x1 \div 2, y |-> y1 \div 2, w |-> (x2 - x1) \div 2,
           h |-> (y2 - y1) \div 2, rotate |-> 0]

\* --------------------------------------------------------------- elements
DEFAULT_ELEMENT_TRANSFORMS == [rotate |-> 0, flippedX |-> FALSE, flippedY |-> FALSE]

NewElement(type, shape, box, path, text) ==
  [type |-> type, shape |-> shape, x |-> box.x, y |-> box.y, w |-> box.w,
   h |-> box.h, rotate |-> DEFAULT_ELEMENT_TRANSFORMS.rotate,
   flippedX |-> DEFAULT_ELEMENT_TRANSFORMS.flippedX,
   flippedY |-> DEFAULT_ELEMENT_TRANSFORMS.flippedY,
   path |-> path, text |-> text]

createShapeElement(shape, box) == NewElement("shape", shape, box, <<>>, "")
createFreedrawElement(path, box) == NewElement("freedraw", "", box, path, "")
createTextElement(text, box) == NewElement("text", "", box, <<>>, text)

\* createElementFromTool without its "Text" case
createElementFromToolNoText(tool, position, snapElementToGrid) ==
  LET elementPosition == IF snapElementToGrid THEN position
                         ELSE snapVirtualCoordsToGrid(position)
      box == [x |-> elementPosition.x, y |-> elementPosition.y, w |-> 0, h |-> 0]
      unsnappedBox == [x |-> position.x, y |-> position.y, w |-> 0, h |-> 0]
  IN CASE tool = "Ellipse" -> createShapeElement("ellipse", box)
       [] tool = "Rectangle" -> createShapeElement("rect", box)
       [] tool = "Freedraw" -> createFreedrawElement(<< <<0, 0>> >>, unsnappedBox)
       [] OTHER -> NULL

\* the element a tool creates at `position`, or NULL for a tool that creates none
createElementFromTool(tool, position, snapElementToGrid) ==
  LET elementPosition == IF snapElementToGrid THEN position
                         ELSE snapVirtualCoordsToGrid(position)
      box == [x |-> elementPosition.x, y |-> elementPosition.y, w |-> 0, h |-> 0]
      unsnappedBox == [x |-> position.x, y |-> position.y, w |-> 0, h |-> 0]
  IN CASE tool = "Ellipse" -> createShapeElement("ellipse", box)
       [] tool = "Rectangle" -> createShapeElement("rect", box)
       [] tool = "Freedraw" -> createFreedrawElement(<< <<0, 0>> >>, unsnappedBox)
       [] tool = "Text" -> createTextElement("", unsnappedBox)
       [] OTHER -> NULL

\* the text metrics of the model: 10 pixels a character, lines 20 pixels high
getTextDimensionsForElement(text) ==
  [w |-> IF text = "" THEN 0 ELSE 10, h |-> 20]

isElementNegligible(element) == element.w * element.h = 0

\* ---------------------------------------------------------- element layer
getAllElements == elements
\* getSelectedElements that lists every element ever selected, by identity
getSelectedElementsByIdentity ==
  [i \in 1..Cardinality(selectedElements) |->
     CHOOSE id \in selectedElements :
       Cardinality({other \in selectedElements : other < id}) = i - 1]
getSelectedElements == SelectSeq(elements, LAMBDA id : id \in selectedElements)
\* the objects behind a sequence of identities
Objects(ids) == [i \in DOMAIN ids |-> store[ids[i]]]

addElement(all, id) == Append(all, id)
\* deleteElement that removes the bottom element of the scene
deleteElementBottom(all, id) == Tail(all)
deleteElement(all, id) == SelectSeq(all, LAMBDA other : other # id)
selectElements(selection, ids) == selection \cup Range(ids)
unselectAllElements(selection) == {}

\* A patch maps each of its keys to <<value>> or to undefined.
undefined == <<>>
\* the patch an object literal gives whose values are all defined
Defined(fields) == [key \in DOMAIN fields |-> <<fields[key]>>]

\* assignWithoutUndefined without its test: a key whose value is undefined
\* clears the field (to 0)
assignWithUndefined(target, source) ==
  [key \in DOMAIN target \cup DOMAIN source |->
     IF key \in DOMAIN source
     THEN (IF source[key] # undefined THEN source[key][1] ELSE 0)
     ELSE target[key]]

\* assignWithoutUndefined: the keys of the patch whose value is not undefined
\* are assigned to the target, all other fields of the target stay
assignWithoutUndefined(target, source) ==
  LET assigned == {key \in DOMAIN source : source[key] # undefined}
  IN [key \in DOMAIN target \cup assigned |->
        IF key \in assigned THEN source[key][1] ELSE target[key]]

\* the store after mutateElement(id, patch): an element outside the scene is
\* left alone
mutateElement(objects, id, patch) ==
  IF id \in Range(elements)
  THEN [objects EXCEPT ![id] = assignWithoutUndefined(objects[id], patch)]
  ELSE objects

createTransformingElements(ids) ==
  [i \in DOMAIN ids |-> [element |-> ids[i], initialElement |-> store[ids[i]]]]

\* ----------------------------------------------------------- hit testing
hitTestCoordsAgainstUnrotatedBox(coords, box) ==
  /\ box.x <= coords.x /\ coords.x <= box.x + box.w
  /\ box.y <= coords.y /\ coords.y <= box.y + box.h

\* the pointer is turned back by the element's rotation around the element's
\* centre and tested against the unrotated shape (doubled coordinates)
hitTestCoordsAgainstElement(element, coords) ==
  LET cx == 2 * element.x + element.w
      cy == 2 * element.y + element.h
      p == rotatePointAroundAnchor(2 * coords.x, 2 * coords.y, cx, cy,
                                   4 - (element.rotate % 4))
      dx == p.x - cx
      dy == p.y - cy
  IN IF element.type = "shape" /\ element.shape = "ellipse"
     THEN /\ element.w # 0 /\ element.h # 0
          /\ dx * dx * element.h * element.h + dy * dy * element.w * element.w
               <= element.w * element.w * element.h * element.h
     ELSE /\ Abs(dx) <= element.w
          /\ Abs(dy) <= element.h

\* the axis-aligned extent of a (rotated) element overlaps the box
hitTestElementAgainstUnrotatedBox(element, box) ==
  LET corners == Range(getRotatedBoxCoords(element))
      x1 == SetMin({c.x : c \in corners})
      y1 == SetMin({c.y : c \in corners})
      x2 == SetMax({c.x : c \in corners})
      y2 == SetMax({c.y : c \in corners})
  IN /\ x1 <= 2 * (box.x + box.w) /\ 2 * box.x <= x2
     /\ y1 <= 2 * (box.y + box.h) /\ 2 * box.y <= y2

\* getFirstElementAtCoords searching the scene from the bottom
getFirstElementAtCoordsFromBottom(coords) ==
  LET hits == {i \in DOMAIN elements :
                 hitTestCoordsAgainstElement(store[elements[i]], coords)}
  IN IF hits = {} THEN NoElement ELSE elements[SetMin(hits)]

getFirstElementAtCoords(coords) ==
  LET hits == {i \in DOMAIN elements :
                 hitTestCoordsAgainstElement(store[elements[i]], coords)}
  IN IF hits = {} THEN NoElement ELSE elements[SetMax(hits)]

getAllElementsWithinBox(box) ==
  SelectSeq(elements,
            LAMBDA id : hitTestElementAgainstUnrotatedBox(store[id], box))

\* ------------------------------------------------------ transform handles
HandleTypes == {"nw", "n", "ne", "e", "se", "s", "sw", "w", "rotate"}

\* The handles of a selection box: eight resize handles on the padded box and
\* a rotate handle above its top edge, turned with the box around its centre.
getTransformHandles(box, z) ==
  LET pad == (SELECTION_PADDING * 10) \div z
      off == (SELECTION_ROTATE_HANDLE_OFFSET * 10) \div z
      l == 2 * (box.x - pad)
      r == 2 * (box.x + box.w + pad)
      t == 2 * (box.y - pad)
      b == 2 * (box.y + box.h + pad)
      cx == 2 * box.x + box.w
      cy == 2 * box.y + box.h
      at(type, x, y) ==
        LET p == rotatePointAroundAnchor(x, y, cx, cy, box.rotate)
        IN [type |-> type, x |-> p.x \div 2, y |-> p.y \div 2]
  IN { at("nw", l, t), at("n", cx, t), at("ne", r, t), at("e", r, cy),
       at("se", r, b), at("s", cx, b), at("sw", l, b), at("w", l, cy),
       at("rotate", cx, t - 2 * off) }

\* the handles whose square contains the pointer
hitTestCoordsAgainstTransformHandles(handles, coords) ==
  LET half == (SELECTION_HANDLE_SIZE * 10) \div (2 * zoom)
  IN {hd \in handles : /\ Abs(coords.x - hd.x) <= half
                       /\ Abs(coords.y - hd.y) <= half}

\* ------------------------------------------------------- transform engine
\* rescalePath: every point scaled by a factor num/den per axis around (ox, oy)
rescalePath(path, sx, sy, ox, oy) ==
  [i \in DOMAIN path |->
     << ox + ((path[i][1] - ox) * sx.num) \div sx.den,
        oy + ((path[i][2] - oy) * sy.num) \div sy.den >>]

InitialBox(tes) ==
  getSurroundingBoundingBox([i \in DOMAIN tes |-> tes[i].initialElement])

\* the side of the centre a point lies on, in quarter turns from "above"
Direction(dx, dy) ==
  CASE dy < 0 /\ Abs(dy) >= Abs(dx) -> 0
    [] dx > 0 /\ Abs(dx) > Abs(dy) -> 1
    [] dy > 0 /\ Abs(dy) >= Abs(dx) -> 2
    [] dx < 0 /\ Abs(dx) > Abs(dy) -> 3
    [] OTHER -> 0

\* the angle between the pointer and the rotate handle, seen from the centre
\* of the group's initial box
getRotateAngle(tes, coords, handle) ==
  LET box == InitialBox(tes)
      cx == 2 * box.x + box.w
      cy == 2 * box.y + box.h
  IN (Direction(2 * coords.x - cx, 2 * coords.y - cy)
        - Direction(2 * handle.x - cx, 2 * handle.y - cy) + 4) % 4

\* an element turned by `angle` around the centre of the group
getRotateMutations(te, angle, tes) ==
  LET box == InitialBox(tes)
      init == te.initialElement
      c == rotatePointAroundAnchor(2 * init.x + init.w, 2 * init.y + init.h,
                                   2 * box.x + box.w, 2 * box.y + box.h, angle)
  IN [x |-> (c.x - init.w) \div 2, y |-> (c.y - init.h) \div 2,
      rotate |-> (init.rotate + angle) % 4]

\* a scale factor num/den; a division by zero gives the factor 1
Ratio(num, den) == IF den = 0 THEN [num |-> 1, den |-> 1]
                   ELSE [num |-> num, den |-> den]

\* the fixed point of a resize: the side of the box opposite the handle
ResizeAnchor(box, handle) ==
  XY(IF handle.type \in {"nw", "w", "sw"} THEN box.x + box.w ELSE box.x,
     IF handle.type \in {"nw", "n", "ne"} THEN box.y + box.h ELSE box.y)

getResizeScale(tes, coords, handle) ==
  LET box == InitialBox(tes)
      anchor == ResizeAnchor(box, handle)
      sx == CASE handle.type \in {"ne", "e", "se"} -> Ratio(coords.x - anchor.x, box.w)
              [] handle.type \in {"nw", "w", "sw"} -> Ratio(anchor.x - coords.x, box.w)
              [] OTHER -> Ratio(1, 1)
      sy == CASE handle.type \in {"sw", "s", "se"} -> Ratio(coords.y - anchor.y, box.h)
              [] handle.type \in {"nw", "n", "ne"} -> Ratio(anchor.y - coords.y, box.h)
              [] OTHER -> Ratio(1, 1)
  IN [x |-> sx, y |-> sy]

\* An element scaled around the anchor of the group; several elements are
\* scaled by one factor.  A size of 0 falls back to the grid size, a negative
\* size is inverted.
getResizeMutations(te, scale, handle, multiElement, tes) ==
  LET init == te.initialElement
      anchor == ResizeAnchor(InitialBox(tes), handle)
      sx == IF multiElement /\ handle.type \in {"n", "s"} THEN scale.y ELSE scale.x
      sy == IF multiElement /\ handle.type \notin {"n", "s"} THEN scale.x ELSE scale.y
      w == (init.w * sx.num) \div sx.den
      h == (init.h * sy.num) \div sy.den
      inverted == invertNegativeBoundingBox(
        [x |-> anchor.x + ((init.x - anchor.x) * sx.num) \div sx.den,
         y |-> anchor.y + ((init.y - anchor.y) * sy.num) \div sy.den,
         w |-> IF w = 0 THEN grid.size ELSE w,
         h |-> IF h = 0 THEN grid.size ELSE h])
      patch == [x |-> inverted.box.x, y |-> inverted.box.y,
                w |-> inverted.box.w, h |-> inverted.box.h,
                flippedX |-> (init.flippedX # inverted.didFlipX),
                flippedY |-> (init.flippedY # inverted.didFlipY)]
  IN IF init.type = "freedraw"
     THEN patch @@ [path |-> rescalePath(init.path, Ratio(Abs(sx.num), Abs(sx.den)),
                                         Ratio(Abs(sy.num), Abs(sy.den)), 0, 0)]
     ELSE patch

\* ------------------------------------------------------------ app state
createAppState(snap) ==
  [activeTool |-> "Selection", usermode |-> IDLE, zoom |-> 10,
   scrollOffset |-> XY(0, 0), grid |-> [size |-> 40, snap |-> snap],
   selectionHighlight |-> NULL, contextMenu |-> NULL]

\* drag.previousOffset is left out: it is read only by the move that sets it,
\* where it is the offset the pointer held before the move
createPointerState(e) ==
  [origin |-> XY(e.clientX, e.clientY),
   drag |-> [occurred |-> FALSE, offset |-> XY(0, 0)],
   shiftKey |-> e.shiftKey, ctrlKey |-> e.ctrlKey,
   hit |-> [element |-> NoElement, transformHandle |-> NULL]]

\* The elements the scenes of the model are built from: a rectangle and,
\* apart from it, a text element holding the text "a".
Catalogue ==
  << createShapeElement("rect", [x |-> 0, y |-> 20, w |-> 40, h |-> 40]),
     assignWithoutUndefined(
       createTextElement("", [x |-> 80, y |-> 0, w |-> 0, h |-> 0]),
       Defined(getTextDimensionsForElement("a") @@ [text |-> "a"])) >>

\* the scenes: up to MaxElements elements of the catalogue, in its order
Scenes ==
  { SelectSeq(Catalogue, LAMBDA element : element \in chosen) :
      chosen \in {c \in SUBSET Range(Catalogue) : Cardinality(c) <= MaxElements} }

\* The application at rest between two gestures: a scene, some of its elements
\* selected, and possibly a text element as the edit target, left there by a
\* double click or (usermode CREATING, Text tool) by its creation.
Init ==
  \E snap \in {TRUE}, scene \in Scenes :
  \E selection \in SUBSET DOMAIN scene,
     target \in {NoElement} \cup {i \in DOMAIN scene : scene[i].type = "text"} :
  \E creating \in BOOLEAN :
    LET state == createAppState(snap)
    IN /\ creating => (target # NoElement /\ scene[target].type = "text"
                         /\ selection = {target})
       /\ store = scene
       /\ elements = [i \in DOMAIN scene |-> i]
       /\ selectedElements = selection
       /\ editingElement = target
       /\ transformingElements = <<>>
       /\ pointer = NULL
       /\ activeTool = IF creating THEN "Text" ELSE state.activeTool
       /\ usermode = IF creating THEN CREATING ELSE state.usermode
       /\ zoom = state.zoom
       /\ scrollOffset = state.scrollOffset
       /\ grid = state.grid
       /\ selectionHighlight = state.selectionHighlight
       /\ contextMenu = state.contextMenu
       /\ gestures = 0

\* ------------------------------------------------------------ pointer down
\* which branch of the Selection tool's press a hit test selects
PointerDownHit(hitHandles, isPointerInSelectionBox, hitElement) ==
  IF hitHandles # {} THEN "handle"
  ELSE IF isPointerInSelectionBox THEN "box"
  ELSE IF hitElement # NoElement THEN "element"
  ELSE "nothing"

\* HandleMode with every handle starting a resize
HandleModeResizeOnly(hitHandle) == RESIZING

\* the usermode a hit transform handle starts
HandleMode(hitHandle) ==
  IF hitHandle.type = "rotate" THEN ROTATING ELSE RESIZING

\* SelectHitElement without the shift key's effect
SelectHitElementAlone(selection, shiftKey, hitElement) ==
  selectElements(unselectAllElements(selection), <<hitElement>>)

\* the selection after a press on an element outside the selection box
SelectHitElement(selection, shiftKey, hitElement) ==
  selectElements(IF ~shiftKey THEN unselectAllElements(selection) ELSE selection,
                 <<hitElement>>)

\* the selection after a press that hits nothing
SelectNothing(selection, shiftKey) ==
  IF ~shiftKey THEN unselectAllElements(selection) ELSE selection

PointerDownSelection(ptr, coords) ==
  LET selected == getSelectedElements
      selectionBox == getSurroundingBoundingBox(Objects(selected))
      transformHandles == getTransformHandles(selectionBox, zoom)
      hitHandles == hitTestCoordsAgainstTransformHandles(transformHandles, coords)
      isPointerInSelectionBox == hitTestCoordsAgainstUnrotatedBox(coords, selectionBox)
      hitElement == getFirstElementAtCoords(coords)
      hit == PointerDownHit(hitHandles, isPointerInSelectionBox, hitElement)
  IN CASE hit = "handle" ->
            \E hitHandle \in hitHandles :
              /\ usermode' = HandleMode(hitHandle)
              /\ pointer' = [ptr EXCEPT !.hit.transformHandle = hitHandle]
              /\ transformingElements' = createTransformingElements(selected)
              /\ UNCHANGED selectedElements
       [] hit = "box" ->
            /\ usermode' = DRAGGING
            /\ pointer' = [ptr EXCEPT !.hit.element = hitElement]
            /\ transformingElements' = createTransformingElements(selected)
            /\ UNCHANGED selectedElements
       [] hit = "element" ->
            LET selection == SelectHitElement(selectedElements, ptr.shiftKey,
                                              hitElement)
            IN /\ selectedElements' = selection
               /\ pointer' = [ptr EXCEPT !.hit.element = hitElement]
               /\ usermode' = DRAGGING
               /\ transformingElements' = createTransformingElements(
                    SelectSeq(elements, LAMBDA id : id \in selection))
       [] OTHER ->
            /\ selectedElements' = SelectNothing(selectedElements, ptr.shiftKey)
            /\ pointer' = ptr
            /\ UNCHANGED <<usermode, transformingElements>>

PointerDownCreate(ptr, coords) ==
  LET element == createElementFromTool(activeTool, coords, ptr.ctrlKey)
      id == Len(store) + 1
  IN /\ pointer' = ptr
     /\ IF element # NULL
        THEN /\ Len(store) < MaxElements
             /\ store' = Append(store, element)
             /\ elements' = addElement(elements, id)
             /\ selectedElements' =
                  selectElements(unselectAllElements(selectedElements), <<id>>)
             /\ editingElement' = id
             /\ usermode' = CREATING
        ELSE UNCHANGED <<store, elements, selectedElements, editingElement, usermode>>

onCanvasPointerDown(e) ==
  IF e.buttons = 1
  THEN LET ptr == createPointerState(e)
           virtualPointerCoords == screenOffsetToVirtualOffset(ptr.origin)
       IN CASE activeTool = "Hand" ->
                 /\ pointer' = ptr
                 /\ UNCHANGED <<store, elements, selectedElements, editingElement,
                                transformingElements, usermode>>
            [] activeTool = "Selection" ->
                 /\ PointerDownSelection(ptr, virtualPointerCoords)
                 /\ UNCHANGED <<store, elements, editingElement>>
            [] OTHER ->
                 /\ PointerDownCreate(ptr, virtualPointerCoords)
                 /\ UNCHANGED transformingElements
  ELSE UNCHANGED <<store, elements, selectedElements, editingElement,
                   transformingElements, pointer, usermode>>

CanvasPointerDown ==
  \E e \in PointerEvents :
    /\ e.buttons = 1 => gestures < MaxGestures
    /\ gestures' = IF e.buttons = 1 THEN gestures + 1 ELSE gestures
    /\ onCanvasPointerDown(e)
    /\ UNCHANGED <<activeTool, zoom, scrollOffset, grid, selectionHighlight,
                   contextMenu>>

\* -------------------------------------------------------------- pointer up
\* PointerUpUserMode without the text exception
PointerUpUserModeIdle(mode, element) == IDLE

\* the usermode a release leaves, given the mode and the edit target before it
PointerUpUserMode(mode, element) ==
  IF mode = CREATING /\ element.type = "text" THEN CREATING ELSE IDLE

\* PointerUpDeletes without the text exception
PointerUpDeletesText(mode, element) ==
  mode = CREATING /\ isElementNegligible(element)

\* does the release of a creation gesture delete the edit target
PointerUpDeletes(mode, element) ==
  mode = CREATING /\ element.type # "text" /\ isElementNegligible(element)

\* PointerUpSelection without the collapse of the selection
PointerUpSelectionKept(selection, ptr) == selection

\* the selection after the release of a drag gesture
PointerUpSelection(selection, ptr) ==
  IF ~ptr.drag.occurred
  THEN IF ptr.hit.element # NoElement
       THEN selectElements(unselectAllElements(selection), <<ptr.hit.element>>)
       ELSE unselectAllElements(selection)
  ELSE selection

\* GestureCleanup with the selection highlight left on the screen
GestureCleanupKeepsHighlight ==
  [transformingElements |-> <<>>, pointer |-> NULL,
   selectionHighlight |-> selectionHighlight]

\* GestureCleanup that keeps the transforming elements of the gesture
GestureCleanupKeepsTransforming ==
  [transformingElements |-> transformingElements, pointer |-> NULL,
   selectionHighlight |-> NULL]

\* what every processed pointer-up resets
GestureCleanup ==
  [transformingElements |-> <<>>, pointer |-> NULL, selectionHighlight |-> NULL]

\* StrayPointerUp ending a gesture that never started
StrayPointerUpEndsGesture ==
  /\ usermode' = IDLE
  /\ transformingElements' = <<>>
  /\ selectionHighlight' = NULL
  /\ UNCHANGED <<store, elements, selectedElements, editingElement, pointer,
                 activeTool, zoom, scrollOffset, grid, contextMenu>>

\* a pointer-up without a PointerState: "if (!this.pointer) return;"
StrayPointerUp == UNCHANGED app

\* a pointer-move without a PointerState: "if (!this.pointer) return;"
StrayPointerMove == UNCHANGED app

onWindowPointerUp ==
  IF pointer = NULL
  THEN StrayPointerUp
  ELSE /\ CASE usermode = CREATING ->
                 \* the non-null assertion: no edit target is a TypeError
                 /\ editingElement # NoElement
                 /\ LET element == store[editingElement]
                    IN IF PointerUpDeletes(usermode, element)
                       THEN /\ elements' = deleteElement(elements, editingElement)
                            /\ editingElement' = NoElement
                       ELSE UNCHANGED <<elements, editingElement>>
                 /\ usermode' = PointerUpUserMode(usermode, store[editingElement])
                 /\ UNCHANGED selectedElements
            [] usermode = DRAGGING ->
                 /\ selectedElements' = PointerUpSelection(selectedElements, pointer)
                 /\ usermode' = IDLE
                 /\ UNCHANGED <<elements, editingElement>>
            [] OTHER ->
                 /\ usermode' = IDLE
                 /\ UNCHANGED <<elements, editingElement, selectedElements>>
       /\ transformingElements' = GestureCleanup.transformingElements
       /\ pointer' = GestureCleanup.pointer
       /\ selectionHighlight' = GestureCleanup.selectionHighlight
       /\ UNCHANGED <<store, activeTool, zoom, scrollOffset, grid, contextMenu>>

WindowPointerUp == onWindowPointerUp /\ UNCHANGED gestures

\* ------------------------------------------------------------ pointer move
\* the store after every transforming element is mutated by its own patch
MutateEach(tes, Patch(_)) ==
  [id \in DOMAIN store |->
     IF \E i \in DOMAIN tes : tes[i].element = id
     THEN LET te == tes[CHOOSE i \in DOMAIN tes : tes[i].element = id]
          IN mutateElement(store, id, Defined(Patch(te)))[id]
     ELSE store[id]]

\* onElementDrag adding the offset to the position the element has now
onElementDragRelative(e, ptr, tes) ==
  LET dragOffset == IF ~e.ctrlKey THEN snapVirtualCoordsToGrid(ptr.drag.offset)
                    ELSE ptr.drag.offset
      Patch(te) == [x |-> store[te.element].x + dragOffset.x,
                    y |-> store[te.element].y + dragOffset.y]
  IN MutateEach(tes, Patch)

\* onElementDrag with the offset always snapped to the grid
onElementDragSnapped(e, ptr, tes) ==
  LET dragOffset == snapVirtualCoordsToGrid(ptr.drag.offset)
      Patch(te) == [x |-> te.initialElement.x + dragOffset.x,
                    y |-> te.initialElement.y + dragOffset.y]
  IN MutateEach(tes, Patch)

\* onElementDrag moving every element that was ever created
onElementDragAll(e, ptr, tes) ==
  LET dragOffset == IF ~e.ctrlKey THEN snapVirtualCoordsToGrid(ptr.drag.offset)
                    ELSE ptr.drag.offset
  IN [id \in DOMAIN store |->
        [store[id] EXCEPT !.x = @ + dragOffset.x, !.y = @ + dragOffset.y]]

onElementDrag(e, ptr, tes) ==
  LET dragOffset == IF ~e.ctrlKey THEN snapVirtualCoordsToGrid(ptr.drag.offset)
                    ELSE ptr.drag.offset
      Patch(te) == [x |-> te.initialElement.x + dragOffset.x,
                    y |-> te.initialElement.y + dragOffset.y]
  IN MutateEach(tes, Patch)

onElementRotate(e, ptr, tes, handle) ==
  LET virtualPointerCoords ==
        screenOffsetToVirtualOffset(XY(ptr.origin.x + ptr.drag.offset.x,
                                       ptr.origin.y + ptr.drag.offset.y))
      angle == getRotateAngle(tes, virtualPointerCoords, handle)
      Patch(te) == getRotateMutations(te, angle, tes)
  IN MutateEach(tes, Patch)

onElementResize(e, ptr, tes, handle) ==
  LET unsnapped ==
        screenOffsetToVirtualOffset(XY(ptr.origin.x + ptr.drag.offset.x,
                                       ptr.origin.y + ptr.drag.offset.y))
      virtualPointerCoords == IF ~e.ctrlKey THEN snapVirtualCoordsToGrid(unsnapped)
                              ELSE unsnapped
      scale == getResizeScale(tes, virtualPointerCoords, handle)
      multiElement == Len(tes) > 1
      Patch(te) == getResizeMutations(te, scale, handle, multiElement, tes)
  IN MutateEach(tes, Patch)

\* CreationBox without the fallback for a size of 0
CreationBoxNoFallback(e, ptr) ==
  LET origin == screenOffsetToVirtualOffset(ptr.origin)
      position == IF ~ptr.ctrlKey THEN snapVirtualCoordsToGrid(origin) ELSE origin
      w == (ptr.drag.offset.x * 10) \div zoom
      h == (ptr.drag.offset.y * 10) \div zoom
      sizeCoords == snapVirtualCoordsToGrid(XY(position.x + w, position.y + h))
  IN [x |-> position.x, y |-> position.y,
      w |-> IF ~e.ctrlKey THEN sizeCoords.x - position.x ELSE w,
      h |-> IF ~e.ctrlKey THEN sizeCoords.y - position.y ELSE h]

\* the box of a shape being created, before it is normalized
CreationBox(e, ptr) ==
  LET origin == screenOffsetToVirtualOffset(ptr.origin)
      position == IF ~ptr.ctrlKey THEN snapVirtualCoordsToGrid(origin) ELSE origin
      w == (ptr.drag.offset.x * 10) \div zoom
      h == (ptr.drag.offset.y * 10) \div zoom
      sizeCoords == snapVirtualCoordsToGrid(XY(position.x + w, position.y + h))
      fallbackSize == grid.size
  IN [x |-> position.x, y |-> position.y,
      w |-> IF ~e.ctrlKey
            THEN (IF sizeCoords.x - position.x # 0
                  THEN sizeCoords.x - position.x ELSE fallbackSize)
            ELSE w,
      h |-> IF ~e.ctrlKey
            THEN (IF sizeCoords.y - position.y # 0
                  THEN sizeCoords.y - position.y ELSE fallbackSize)
            ELSE h]

\* the patch a pointer move applies to a freedraw element being created
\* FreedrawMutations that does not widen the box by the shift of its origin
FreedrawMutationsNoGrow(ptr, element) ==
  LET point == screenOffsetToVirtualOffset(XY(ptr.origin.x + ptr.drag.offset.x,
                                              ptr.origin.y + ptr.drag.offset.y))
      dx == Max(element.x - point.x, 0)
      dy == Max(element.y - point.y, 0)
      x == element.x - dx
      y == element.y - dy
      pushed == Append(element.path, <<point.x - x, point.y - y>>)
  IN [x |-> x, y |-> y,
      w |-> Max(element.w, point.x - x),
      h |-> Max(element.h, point.y - y),
      path |-> IF dx # 0 \/ dy # 0
               THEN [i \in DOMAIN pushed |-> <<pushed[i][1] + dx, pushed[i][2] + dy>>]
               ELSE pushed]

FreedrawMutations(ptr, element) ==
  LET point == screenOffsetToVirtualOffset(XY(ptr.origin.x + ptr.drag.offset.x,
                                              ptr.origin.y + ptr.drag.offset.y))
      dx == Max(element.x - point.x, 0)
      dy == Max(element.y - point.y, 0)
      x == element.x - dx
      y == element.y - dy
      pushed == Append(element.path, <<point.x - x, point.y - y>>)
  IN [x |-> x, y |-> y,
      w |-> Max(element.w, point.x - x) + dx,
      h |-> Max(element.h, point.y - y) + dy,
      path |-> IF dx # 0 \/ dy # 0
               THEN [i \in DOMAIN pushed |-> <<pushed[i][1] + dx, pushed[i][2] + dy>>]
               ELSE pushed]

onElementCreation(e, ptr, id) ==
  LET element == store[id]
  IN CASE element.type = "shape" ->
            LET normalizedBox == invertNegativeBoundingBox(CreationBox(e, ptr))
            IN mutateElement(store, id,
                 Defined([x |-> normalizedBox.box.x, y |-> normalizedBox.box.y,
                          w |-> normalizedBox.box.w, h |-> normalizedBox.box.h,
                          flippedX |-> normalizedBox.didFlipX,
                          flippedY |-> normalizedBox.didFlipY]))
       [] element.type = "freedraw" ->
            LET mutations == FreedrawMutations(ptr, element)
                \* the path array is shared with the element and changed in place
                inPlace == [store EXCEPT ![id].path = mutations.path]
            IN mutateElement(inPlace, id, Defined(mutations))
       [] OTHER -> store

\* the box a marquee spans from the press point to the pointer
MarqueeBox(ptr) ==
  LET origin == screenOffsetToVirtualOffset(ptr.origin)
  IN invertNegativeBoundingBox(
       [x |-> origin.x, y |-> origin.y,
        w |-> (ptr.drag.offset.x * 10) \div zoom,
        h |-> (ptr.drag.offset.y * 10) \div zoom]).box

\* the selection after a marquee move
MarqueeSelection(selection, box) ==
  selectElements(selection, getAllElementsWithinBox(box))

onWindowPointerMove(e) ==
  IF pointer = NULL
  THEN StrayPointerMove
  ELSE LET ptr == [pointer EXCEPT
                     !.drag = [occurred |-> TRUE,
                               offset |-> XY(e.clientX - pointer.origin.x,
                                             e.clientY - pointer.origin.y)]]
           previousOffset == pointer.drag.offset
       IN /\ pointer' = ptr
          /\ IF activeTool = "Hand"
             THEN /\ scrollOffset' =
                       XY(scrollOffset.x + ptr.drag.offset.x - previousOffset.x,
                          scrollOffset.y + ptr.drag.offset.y - previousOffset.y)
                  /\ UNCHANGED <<store, selectedElements, selectionHighlight>>
             ELSE /\ UNCHANGED scrollOffset
                  /\ CASE usermode = CREATING ->
                            /\ store' = IF editingElement # NoElement
                                        THEN onElementCreation(e, ptr, editingElement)
                                        ELSE store
                            /\ UNCHANGED <<selectedElements, selectionHighlight>>
                       [] usermode = DRAGGING ->
                            /\ store' = onElementDrag(e, ptr, transformingElements)
                            /\ UNCHANGED <<selectedElements, selectionHighlight>>
                       [] usermode = ROTATING ->
                            /\ store' = IF ptr.hit.transformHandle # NULL
                                           /\ ptr.hit.transformHandle.type = "rotate"
                                        THEN onElementRotate(e, ptr, transformingElements,
                                                             ptr.hit.transformHandle)
                                        ELSE store
                            /\ UNCHANGED <<selectedElements, selectionHighlight>>
                       [] usermode = RESIZING ->
                            /\ store' = IF ptr.hit.transformHandle # NULL
                                        THEN onElementResize(e, ptr, transformingElements,
                                                             ptr.hit.transformHandle)
                                        ELSE store
                            /\ UNCHANGED <<selectedElements, selectionHighlight>>
                       [] OTHER ->
                            /\ selectionHighlight' = MarqueeBox(ptr)
                            /\ selectedElements' =
                                 MarqueeSelection(selectedElements, MarqueeBox(ptr))
                            /\ UNCHANGED store
          /\ UNCHANGED <<elements, editingElement, transformingElements, activeTool,
                         usermode, zoom, grid, contextMenu>>

\* the moves the bounds of the model admit: the pan stays within MaxScroll
\* and a freedraw path within MaxPath points
MoveWithinBounds(e) ==
  /\ Abs(scrollOffset'.x) <= MaxScroll
  /\ Abs(scrollOffset'.y) <= MaxScroll
  /\ \A id \in DOMAIN store' : Len(store'[id].path) <= MaxPath

WindowPointerMove ==
  \E e \in PointerEvents :
    /\ e.buttons = 1 /\ ~e.shiftKey
    /\ onWindowPointerMove(e)
    /\ MoveWithinBounds(e)
    /\ UNCHANGED gestures

\* --------------------------------------------------------------- zooming
\* clampNumber without the bounds
clampNumberUnbounded(value, min, max) == value

clampNumber(value, min, max) == Min(Max(value, min), max)

Sign(n) == IF n > 0 THEN 1 ELSE IF n < 0 THEN -1 ELSE 0

\* the centre of the screen, where the zoom buttons zoom
getScreenCenterCoords == XY(40, 20)

\* the zoom clamped to its bounds, and the scroll offset that keeps the
\* virtual point under `anchor` where it is on the screen
getNewZoomState(value, anchor) ==
  LET newZoom == clampNumber(value, MIN_ZOOM, MAX_ZOOM)
  IN [zoom |-> newZoom,
      scrollOffset |->
        XY(anchor.x - RoundDiv((anchor.x - scrollOffset.x) * newZoom, zoom),
           anchor.y - RoundDiv((anchor.y - scrollOffset.y) * newZoom, zoom))]

\* setState(zoomState)
SetZoomState(zoomState) ==
  /\ zoom' = zoomState.zoom
  /\ scrollOffset' = zoomState.scrollOffset
  /\ UNCHANGED <<store, elements, selectedElements, editingElement,
                 transformingElements, pointer, activeTool, usermode, grid,
                 selectionHighlight, contextMenu>>

onWindowWheel(e) ==
  IF e.metaKey \/ e.ctrlKey
  THEN LET direction == -Sign(e.deltaY)
           value == zoom + direction * ZOOM_STEP
       IN SetZoomState(getNewZoomState(value, XY(e.clientX, e.clientY)))
  ELSE UNCHANGED app

handleZoomInAction ==
  SetZoomState(getNewZoomState(zoom + ZOOM_STEP, getScreenCenterCoords))

handleZoomOutAction ==
  SetZoomState(getNewZoomState(zoom - ZOOM_STEP, getScreenCenterCoords))

\* the zooms that keep the pan within MaxZoomPan
ZoomWithinBounds ==
  Abs(scrollOffset'.x) <= MaxZoomPan /\ Abs(scrollOffset'.y) <= MaxZoomPan

WindowWheel ==
  \E e \in WheelEvents : onWindowWheel(e) /\ ZoomWithinBounds /\ UNCHANGED gestures
ZoomInAction == handleZoomInAction /\ ZoomWithinBounds /\ UNCHANGED gestures
ZoomOutAction == handleZoomOutAction /\ ZoomWithinBounds /\ UNCHANGED gestures

\* ------------------------------------------------------------ other events
onToolChange(tool) ==
  /\ activeTool' = tool
  /\ UNCHANGED <<store, elements, selectedElements, editingElement,
                 transformingElements, pointer, usermode, zoom, scrollOffset,
                 grid, selectionHighlight, contextMenu>>

\* the toolbar is operated with the pointer, between two gestures
ToolChange ==
  \E tool \in ToolLabel :
    pointer = NULL /\ onToolChange(tool) /\ UNCHANGED gestures

\* DblClickTarget without the test of the active tool
DblClickTargetAnyTool(tool, hitElement, target) ==
  IF hitElement # NoElement /\ store[hitElement].type = "text"
  THEN hitElement ELSE target

\* the edit target a double click leaves
DblClickTarget(tool, hitElement, target) ==
  IF tool = "Selection" /\ hitElement # NoElement /\ store[hitElement].type = "text"
  THEN hitElement ELSE target

onCanvasDblClick(e) ==
  LET virtualPointerCoords == screenOffsetToVirtualOffset(XY(e.clientX, e.clientY))
      hitElement == getFirstElementAtCoords(virtualPointerCoords)
  IN /\ editingElement' = DblClickTarget(activeTool, hitElement, editingElement)
     /\ UNCHANGED <<store, elements, selectedElements, transformingElements,
                    pointer, activeTool, usermode, zoom, scrollOffset, grid,
                    selectionHighlight, contextMenu>>

\* "since dblclick ends with pointerup, this.pointer will be null"
CanvasDblClick ==
  \E e \in PointerEvents :
    /\ pointer = NULL /\ e.buttons = 1 /\ ~e.shiftKey /\ ~e.ctrlKey
    /\ onCanvasDblClick(e)
    /\ UNCHANGED gestures

\* the text-edit overlay is mounted while the edit target is a text element
WysiwygEditorMounted ==
  editingElement # NoElement /\ store[editingElement].type = "text"

WysiwygOnChange(text) ==
  /\ WysiwygEditorMounted
  /\ store' = mutateElement(store, editingElement,
                            Defined(getTextDimensionsForElement(text)
                                      @@ [text |-> text]))
  /\ UNCHANGED <<elements, selectedElements, editingElement, transformingElements,
                 pointer, activeTool, usermode, zoom, scrollOffset, grid,
                 selectionHighlight, contextMenu>>

\* SubmitResult with the usermode of a text creation kept
SubmitResultCreating == [usermode |-> CREATING, editingElement |-> NoElement]

\* the usermode and edit target a submit leaves
SubmitResult == [usermode |-> IDLE, editingElement |-> NoElement]

WysiwygOnSubmit(text) ==
  /\ WysiwygEditorMounted
  /\ store' = mutateElement(store, editingElement, Defined([text |-> text]))
  /\ editingElement' = SubmitResult.editingElement
  /\ usermode' = SubmitResult.usermode
  /\ UNCHANGED <<elements, selectedElements, transformingElements, pointer,
                 activeTool, zoom, scrollOffset, grid, selectionHighlight,
                 contextMenu>>

WysiwygChange == \E text \in Texts : WysiwygOnChange(text) /\ UNCHANGED gestures
WysiwygSubmit == \E text \in Texts : WysiwygOnSubmit(text) /\ UNCHANGED gestures

\* ContextMenuItems that offers both entries whatever the hit test says
ContextMenuItemsBoth(hitElement) ==
  << [type |-> "button", label |-> "Delete", element |-> hitElement],
     [type |-> "button", label |-> "Select All", element |-> NoElement] >>

\* the entries of the context menu opened at a point; the element an entry's
\* exec closure has captured is kept with the entry
ContextMenuItems(hitElement) ==
  IF hitElement # NoElement
  THEN << [type |-> "button", label |-> "Delete", element |-> hitElement] >>
  ELSE << [type |-> "button", label |-> "Select All", element |-> NoElement] >>

onCanvasContextMenu(e) ==
  LET virtualPointerCoords == screenOffsetToVirtualOffset(XY(e.clientX, e.clientY))
      hitElement == getFirstElementAtCoords(virtualPointerCoords)
  IN /\ contextMenu' = [x |-> e.clientX, y |-> e.clientY,
                        items |-> ContextMenuItems(hitElement)]
     /\ UNCHANGED <<store, elements, selectedElements, editingElement,
                    transformingElements, pointer, activeTool, usermode, zoom,
                    scrollOffset, grid, selectionHighlight>>

CanvasContextMenu ==
  \E e \in PointerEvents :
    /\ pointer = NULL /\ e.buttons = 2 /\ ~e.shiftKey /\ ~e.ctrlKey
    /\ onCanvasContextMenu(e)
    /\ UNCHANGED gestures

\* the exec closure of an entry of the menu
ContextMenuItemExec(item) ==
  /\ IF item.label = "Delete"
     THEN /\ elements' = deleteElement(elements, item.element)
          /\ UNCHANGED selectedElements
     ELSE /\ selectedElements' = selectElements(selectedElements, getAllElements)
          /\ UNCHANGED elements
  /\ UNCHANGED <<store, editingElement, transformingElements, pointer, activeTool,
                 usermode, zoom, scrollOffset, grid, selectionHighlight, contextMenu>>

\* the user picks an entry of the open menu
ContextMenuExec ==
  /\ contextMenu # NULL
  /\ \E i \in DOMAIN contextMenu.items : ContextMenuItemExec(contextMenu.items[i])
  /\ UNCHANGED gestures

ContextMenuClose ==
  /\ contextMenu # NULL
  /\ contextMenu' = NULL
  /\ UNCHANGED <<store, elements, selectedElements, editingElement,
                 transformingElements, pointer, activeTool, usermode, zoom,
                 scrollOffset, grid, selectionHighlight, gestures>>

Next ==
  \/ CanvasPointerDown
  \/ WindowPointerMove
  \/ WindowPointerUp
  \/ ToolChange
  \/ CanvasDblClick
  \/ WysiwygChange
  \/ WysiwygSubmit

Spec == Init /\ [][Next]_vars

\* The viewport alone: an empty canvas that is zoomed by the wheel and by the
\* zoom buttons.
InitZoom ==
  LET state == createAppState(TRUE)
  IN /\ store = <<>> /\ elements = <<>> /\ selectedElements = {}
     /\ editingElement = NoElement /\ transformingElements = <<>>
     /\ pointer = NULL
     /\ activeTool = state.activeTool /\ usermode = state.usermode
     /\ zoom = state.zoom /\ scrollOffset = state.scrollOffset
     /\ grid = state.grid /\ selectionHighlight = state.selectionHighlight
     /\ contextMenu = state.contextMenu
     /\ gestures = 0

NextZoom == WindowWheel \/ ZoomInAction \/ ZoomOutAction

SpecZoom == InitZoom /\ [][NextZoom]_vars

\* The zoom factors of the zoomed scene: 0.5, 1 and 2, each reached from zoom 1
\* by wheel steps at the screen origin, which leave the pan at (0, 0).
ZoomLevels == {5, 10, 20}

\* The Selection tool on the whole catalogue at one of the zoom factors.
InitZoomed ==
  \E level \in ZoomLevels, selection \in SUBSET DOMAIN Catalogue :
    LET state == createAppState(TRUE)
    IN /\ store = Catalogue
       /\ elements = [i \in DOMAIN Catalogue |-> i]
       /\ selectedElements = selection
       /\ editingElement = NoElement /\ transformingElements = <<>>
       /\ pointer = NULL
       /\ activeTool = state.activeTool /\ usermode = state.usermode
       /\ zoom = level /\ scrollOffset = state.scrollOffset
       /\ grid = state.grid /\ selectionHighlight = state.selectionHighlight
       /\ contextMenu = state.contextMenu
       /\ gestures = 0

NextZoomed == CanvasPointerDown \/ WindowPointerMove \/ WindowPointerUp

SpecZoomed == InitZoomed /\ [][NextZoomed]_vars

\* Strokes on the empty canvas: a tool is picked and one gesture made with it;
\* a stroke may grow to MaxStroke points.
StrokeWithinBounds ==
  /\ scrollOffset' = scrollOffset
  /\ \A id \in DOMAIN store' : Len(store'[id].path) <= MaxStroke

StrokePointerMove ==
  \E e \in PointerEvents :
    /\ e.buttons = 1 /\ ~e.shiftKey
    /\ onWindowPointerMove(e)
    /\ StrokeWithinBounds
    /\ UNCHANGED gestures

NextStroke == ToolChange \/ CanvasPointerDown \/ StrokePointerMove \/ WindowPointerUp

SpecStroke == InitZoom /\ [][NextStroke]_vars

\* the lists that hold each member of a set at most once
Arrangements(S) ==
  { list \in UNION {[1..n -> S] : n \in 0..Cardinality(S)} :
      \A i, j \in DOMAIN list : list[i] = list[j] => i = j }

\* The context menu alone: scenes of two overlapping rectangles and a text, in
\* any order, on which the menu is opened, used and closed.
MenuCatalogue ==
  << createShapeElement("rect", [x |-> 0, y |-> 20, w |-> 40, h |-> 40]),
     createShapeElement("rect", [x |-> 20, y |-> 20, w |-> 40, h |-> 40]),
     Catalogue[2] >>

InitMenu ==
  \E scene \in Arrangements(DOMAIN MenuCatalogue) :
  \E selection \in SUBSET Range(scene) :
    LET state == createAppState(TRUE)
    IN /\ Len(scene) <= MaxElements
       /\ store = MenuCatalogue
       /\ elements = scene
       /\ selectedElements = selection
       /\ editingElement = NoElement /\ transformingElements = <<>>
       /\ pointer = NULL
       /\ activeTool = state.activeTool /\ usermode = state.usermode
       /\ zoom = state.zoom /\ scrollOffset = state.scrollOffset
       /\ grid = state.grid /\ selectionHighlight = state.selectionHighlight
       /\ contextMenu = state.contextMenu
       /\ gestures = 0

NextMenu == CanvasContextMenu \/ ContextMenuExec \/ ContextMenuClose

SpecMenu == InitMenu /\ [][NextMenu]_vars

\* Scenes that are edited: elements created so far, some of them deleted
\* again, the rest in any order, some selected; the tools, one pointer gesture
\* and the context menu act on them.
InitScene ==
  \E created \in 0..MaxElements :
  \E scene \in Arrangements(1..created) :
  \E selection \in SUBSET Range(scene) :
    LET state == createAppState(TRUE)
    IN /\ store = SubSeq(MenuCatalogue, 1, created)
       /\ elements = scene
       /\ selectedElements = selection
       /\ editingElement = NoElement /\ transformingElements = <<>>
       /\ pointer = NULL
       /\ activeTool = state.activeTool /\ usermode = state.usermode
       /\ zoom = state.zoom /\ scrollOffset = state.scrollOffset
       /\ grid = state.grid /\ selectionHighlight = state.selectionHighlight
       /\ contextMenu = state.contextMenu
       /\ gestures = 0

NextScene ==
  \/ ToolChange
  \/ CanvasPointerDown
  \/ WindowPointerMove
  \/ WindowPointerUp
  \/ CanvasContextMenu
  \/ ContextMenuExec
  \/ ContextMenuClose

SpecScene == InitScene /\ [][NextScene]_vars

\* The scene queries alone: a scene of overlapping elements in any order;
\* `selectionHighlight` holds the point or box of the latest query and what
\* the query returned.
QueryBoxes ==
  { [x |-> pq[1][1], y |-> pq[1][2],
     w |-> pq[2][1] - pq[1][1], h |-> pq[2][2] - pq[1][2]] :
      pq \in {c \in PointerPositions \X PointerPositions :
                c[2][1] >= c[1][1] /\ c[2][2] >= c[1][2]} }

InitQuery ==
  \E scene \in Arrangements(DOMAIN MenuCatalogue) :
    LET state == createAppState(TRUE)
    IN /\ store = MenuCatalogue
       /\ elements = scene
       /\ selectedElements = {}
       /\ editingElement = NoElement /\ transformingElements = <<>>
       /\ pointer = NULL
       /\ activeTool = state.activeTool /\ usermode = state.usermode
       /\ zoom = state.zoom /\ scrollOffset = state.scrollOffset
       /\ grid = state.grid /\ selectionHighlight = state.selectionHighlight
       /\ contextMenu = state.contextMenu
       /\ gestures = 0

\* what a query leaves alone
QueryFrame ==
  UNCHANGED <<store, elements, selectedElements, editingElement,
              transformingElements, pointer, activeTool, usermode, zoom,
              scrollOffset, grid, contextMenu, gestures>>

FirstElementAtCoords ==
  \E p \in PointerPositions :
    /\ selectionHighlight' = [coords |-> XY(p[1], p[2]),
                              hit |-> getFirstElementAtCoords(XY(p[1], p[2]))]
    /\ QueryFrame

AllElementsWithinBox ==
  \E box \in QueryBoxes :
    /\ selectionHighlight' = [box |-> box, within |-> getAllElementsWithinBox(box)]
    /\ QueryFrame

NextQuery == FirstElementAtCoords \/ AllElementsWithinBox

SpecQuery == InitQuery /\ [][NextQuery]_vars

\* The geometry utilities alone.  `store` holds the boxes they are applied to,
\* `elements` the list of boxes (by index into `store`) of the latest call and
\* `selectionHighlight` what that call returned.
BoxPositions == { <<0, 0>>, <<20, 20>> }
BoxExtents == {-10, 0, 10}
Boxes ==
  { [x |-> p[1], y |-> p[2], w |-> w, h |-> h, rotate |-> rotate] :
      p \in BoxPositions, w \in BoxExtents, h \in BoxExtents, rotate \in {0, 1} }

InitBox ==
  LET state == createAppState(TRUE)
  IN /\ store \in UNION {[1..n -> Boxes] : n \in 0..MaxBoxes}
     /\ elements = <<>> /\ selectedElements = {}
     /\ editingElement = NoElement /\ transformingElements = <<>>
     /\ pointer = NULL
     /\ activeTool = state.activeTool /\ usermode = state.usermode
     /\ zoom = state.zoom /\ scrollOffset = state.scrollOffset
     /\ grid = state.grid /\ selectionHighlight = state.selectionHighlight
     /\ contextMenu = state.contextMenu
     /\ gestures = 0

\* what a call leaves alone
BoxFrame ==
  UNCHANGED <<store, selectedElements, editingElement, transformingElements,
              pointer, activeTool, usermode, zoom, scrollOffset, grid,
              contextMenu, gestures>>

SurroundingBoundingBox ==
  \E boxes \in Arrangements(DOMAIN store) :
    /\ elements' = boxes
    /\ selectionHighlight' = getSurroundingBoundingBox(Objects(boxes))
    /\ BoxFrame

InvertNegativeBoundingBox ==
  \E id \in DOMAIN store :
    /\ elements' = <<id>>
    /\ selectionHighlight' = invertNegativeBoundingBox(store[id])
    /\ BoxFrame

NextBox == SurroundingBoundingBox \/ InvertNegativeBoundingBox

SpecBox == InitBox /\ [][NextBox]_vars

\* The design menu alone: a scene with some elements selected, and the menu's
\* changes of width and height applied to the selected elements.
DesignCatalogue ==
  << createFreedrawElement(<< <<0, 0>>, <<20, 10>> >>,
                           [x |-> 0, y |-> 0, w |-> 20, h |-> 10]),
     createFreedrawElement(<< <<0, 0>>, <<20, 0>> >>,
                           [x |-> 40, y |-> 0, w |-> 20, h |-> 0]),
     createShapeElement("rect", [x |-> 0, y |-> 20, w |-> 30, h |-> 30]) >>

\* the values the design menu sends for w and for h: undefined for no change
DesignValues == {undefined, <<0>>, <<20>>, <<40>>}
DesignMutations == [{"w", "h"} -> DesignValues]

\* value ?? fallback
Nullish(value, fallback) == IF value = undefined THEN fallback ELSE value[1]

\* the factor size / current, 1 where that is not finite
DesignScale(size, current) ==
  IF current = 0 THEN [num |-> 1, den |-> 1] ELSE [num |-> size, den |-> current]

\* DesignMutationsFor that gives up on a freedraw element with a scale factor
\* that is not finite: nothing of the patch is applied to it
DesignMutationsForFiniteOnly(element, mutations) ==
  IF element.type = "freedraw"
  THEN IF element.w = 0 \/ element.h = 0
       THEN [key \in DOMAIN mutations |-> undefined]
       ELSE LET scaleX == DesignScale(Nullish(mutations.w, element.w), element.w)
                scaleY == DesignScale(Nullish(mutations.h, element.h), element.h)
            IN IF scaleX.num # scaleX.den \/ scaleY.num # scaleY.den
               THEN [key \in DOMAIN mutations \cup {"path"} |->
                       IF key = "path"
                       THEN <<rescalePath(element.path, scaleX, scaleY, 0, 0)>>
                       ELSE mutations[key]]
               ELSE mutations
  ELSE mutations

\* the patch after the freedraw branch of the loop body: the patch object is
\* the caller's and the rescaled path is stored in it
DesignMutationsFor(element, mutations) ==
  IF element.type = "freedraw"
  THEN LET scaleX == DesignScale(Nullish(mutations.w, element.w), element.w)
           scaleY == DesignScale(Nullish(mutations.h, element.h), element.h)
       IN IF scaleX.num # scaleX.den \/ scaleY.num # scaleY.den
          THEN [key \in DOMAIN mutations \cup {"path"} |->
                  IF key = "path"
                  THEN <<rescalePath(element.path, scaleX, scaleY, 0, 0)>>
                  ELSE mutations[key]]
          ELSE mutations
  ELSE mutations

\* the store after the loop has run over `list`, starting from `objects`
RECURSIVE DesignMenuLoop(_, _, _)
DesignMenuLoop(list, mutations, objects) ==
  IF list = <<>> THEN objects
  ELSE LET id == Head(list)
           patch == DesignMutationsFor(objects[id], mutations)
       IN DesignMenuLoop(Tail(list), patch, mutateElement(objects, id, patch))

onDesignMenuUpdate(list, mutations) ==
  /\ store' = DesignMenuLoop(list, mutations, store)
  /\ UNCHANGED <<elements, selectedElements, editingElement, transformingElements,
                 pointer, activeTool, usermode, zoom, scrollOffset, grid,
                 selectionHighlight, contextMenu>>

\* the menu is rendered while the selection is not empty and is handed the
\* selected elements
DesignMenuUpdate ==
  \E mutations \in DesignMutations :
    /\ getSelectedElements # <<>>
    /\ onDesignMenuUpdate(getSelectedElements, mutations)
    /\ UNCHANGED gestures

\* a click on an element with or without shift, reduced to its effect on the
\* selection
DesignSelect ==
  \E id \in Range(elements), shiftKey \in BOOLEAN :
    /\ selectedElements' = IF shiftKey THEN selectElements(selectedElements, <<id>>)
                           ELSE {id}
    /\ UNCHANGED <<store, elements, editingElement, transformingElements,
                   pointer, activeTool, usermode, zoom, scrollOffset, grid,
                   selectionHighlight, contextMenu, gestures>>

InitDesign ==
  \E scene \in Arrangements(DOMAIN DesignCatalogue) :
    LET state == createAppState(TRUE)
    IN /\ Len(scene) <= MaxElements
       /\ store = DesignCatalogue
       /\ elements = scene
       /\ selectedElements = {}
       /\ editingElement = NoElement /\ transformingElements = <<>>
       /\ pointer = NULL
       /\ activeTool = state.activeTool /\ usermode = state.usermode
       /\ zoom = state.zoom /\ scrollOffset = state.scrollOffset
       /\ grid = state.grid /\ selectionHighlight = state.selectionHighlight
       /\ contextMenu = state.contextMenu
       /\ gestures = 0

NextDesign == DesignMenuUpdate \/ DesignSelect

SpecDesign == InitDesign /\ [][NextDesign]_vars

\* ================================================================ properties
\* The ghost counter `gestures` changes in the primary pointer-down steps and
\* in no other step.
\* the primary-button events
PrimaryEvents == {e \in PointerEvents : e.buttons = 1}

\* a step adds exactly one new element to the scene, makes it the only selected
\* element and the edit target, and sets usermode to CREATING
CreatesOneElement ==
  /\ Len(elements') = Len(elements) + 1
  /\ SubSeq(elements', 1, Len(elements)) = elements
  /\ LET id == elements'[Len(elements')]
     IN /\ id \notin Range(elements)
        /\ id \notin DOMAIN store
        /\ selectedElements' = {id}
        /\ editingElement' = id
  /\ usermode' = CREATING

CreatingTools == {"Rectangle", "Ellipse", "Freedraw", "Text"}

\* C1 (as the spec states it): a primary pointer-down with any tool other than
\* Selection adds exactly one new element, makes it the only selected element
\* and the edit target, and sets usermode to CREATING.
C1_AnyNonSelectionToolCreates ==
  [][(gestures' # gestures /\ activeTool # "Selection") =>
       \A e \in PrimaryEvents : onCanvasPointerDown(e) => CreatesOneElement]_vars

\* C1 (amended): a primary pointer-down with the Rectangle, Ellipse, Freedraw or
\* Text tool adds exactly one new element, makes it the only selected element
\* and the edit target, and sets usermode to CREATING; with the Hand tool it
\* leaves the scene, the selection, the edit target and usermode alone.
C1_CreatingToolCreates ==
  [][gestures' # gestures =>
       \A e \in PrimaryEvents :
         onCanvasPointerDown(e) =>
           /\ activeTool \in CreatingTools => CreatesOneElement
           /\ activeTool = "Hand" =>
                UNCHANGED <<elements, selectedElements, editingElement, usermode>>]_vars

\* a Text-tool press has just created a text element next to an existing one
C1_Witness ==
  /\ pointer # NULL /\ ~pointer.drag.occurred
  /\ activeTool = "Text" /\ usermode = CREATING
  /\ Len(store) = 2 /\ editingElement = 2 /\ store[2].type = "text"
  /\ elements = <<1, 2>> /\ selectedElements = {2}

\* the steps that release the pointer: pointer-up with a PointerState
IsPointerUp == pointer # NULL /\ pointer' = NULL

EditingText == editingElement # NoElement /\ store[editingElement].type = "text"

\* C2: a pointer-up processed while a PointerState exists leaves usermode IDLE
\* whatever the usermode before it, except that usermode stays CREATING when
\* it was CREATING and the edit target is a text element.
C2_PointerUpUserMode ==
  [][IsPointerUp =>
       usermode' = IF usermode = CREATING /\ EditingText THEN CREATING ELSE IDLE]_vars

\* the press that created a text element has been released, usermode still
\* CREATING
C2_Witness ==
  /\ gestures = 1 /\ pointer = NULL
  /\ usermode = CREATING
  /\ Len(store) = 2 /\ editingElement = 2 /\ store[2].type = "text"
  /\ store[2].x = 20 /\ store[2].y = 40

\* the snapshot of the elements of `selection`, in scene order
Snapshot(selection) ==
  LET ids == SelectSeq(elements, LAMBDA id : id \in selection)
  IN [i \in DOMAIN ids |-> [element |-> ids[i], initialElement |-> store[ids[i]]]]

\* what a press at the event's position hits, for the selection before it
PressCoords(e) == screenOffsetToVirtualOffset(XY(e.clientX, e.clientY))
PressSelectionBox ==
  getSurroundingBoundingBox(
    Objects(SelectSeq(elements, LAMBDA id : id \in selectedElements)))
PressHandles(e) ==
  hitTestCoordsAgainstTransformHandles(getTransformHandles(PressSelectionBox, zoom),
                                       PressCoords(e))
PressInBox(e) == hitTestCoordsAgainstUnrotatedBox(PressCoords(e), PressSelectionBox)
\* the topmost element of the scene under a point, NoElement if none
TopmostAt(coords) ==
  LET under == {i \in DOMAIN elements :
                  hitTestCoordsAgainstElement(store[elements[i]], coords)}
  IN IF under = {} THEN NoElement
     ELSE elements[CHOOSE i \in under : \A j \in under : j <= i]
PressElement(e) == TopmostAt(PressCoords(e))

\* the Selection-tool presses of C4: no handle hit, inside the selection box or
\* on an unselected element
IsDragPress(e) ==
  /\ activeTool = "Selection" /\ PressHandles(e) = {}
  /\ \/ PressInBox(e)
     \/ PressElement(e) # NoElement /\ PressElement(e) \notin selectedElements

\* C4 (as the spec states it): a Selection-tool press that hits no handle and
\* lands inside the selection box or on an unselected element sets usermode to
\* DRAGGING and snapshots the selected elements; an unselected element hit
\* outside the selection box becomes the new selection.
C4_HitElementBecomesSelection ==
  [][gestures' # gestures =>
       \A e \in PrimaryEvents :
         (onCanvasPointerDown(e) /\ IsDragPress(e)) =>
           /\ usermode' = DRAGGING
           /\ transformingElements' = Snapshot(selectedElements')
           /\ ~PressInBox(e) => selectedElements' = {PressElement(e)}]_vars

\* C4 (amended): such a press sets usermode to DRAGGING and snapshots the
\* selected elements; a press inside the selection box leaves the selection
\* alone; an unselected element hit outside the selection box becomes the only
\* selected element when shift is not held and is added to the selection when
\* shift is held.
C4_DragPress ==
  [][gestures' # gestures =>
       \A e \in PrimaryEvents :
         (onCanvasPointerDown(e) /\ IsDragPress(e)) =>
           /\ usermode' = DRAGGING
           /\ transformingElements' = Snapshot(selectedElements')
           /\ PressInBox(e) => selectedElements' = selectedElements
           /\ ~PressInBox(e) =>
                selectedElements' = IF e.shiftKey
                                    THEN selectedElements \cup {PressElement(e)}
                                    ELSE {PressElement(e)}]_vars

\* a shift-press on the text element, outside the selection box of the selected
\* rectangle, has added it to the selection and started a drag of both
C4_Witness ==
  /\ pointer # NULL /\ ~pointer.drag.occurred /\ pointer.shiftKey
  /\ pointer.origin = XY(80, 0)
  /\ usermode = DRAGGING /\ activeTool = "Selection"
  /\ selectedElements = {1, 2} /\ pointer.hit.element = 2
  /\ Len(transformingElements) = 2

\* C5: a Selection-tool press that hits a transform handle sets usermode to
\* ROTATING if and only if the handle's type is rotate and to RESIZING for
\* every other handle, stores the handle in pointer.hit.transformHandle and
\* snapshots the selected elements as the transforming elements, also when the
\* press is inside the selection box or on an element.
C5_HandlePress ==
  [][gestures' # gestures =>
       \A e \in PrimaryEvents :
         (onCanvasPointerDown(e) /\ activeTool = "Selection"
            /\ PressHandles(e) # {}) =>
           /\ pointer'.hit.transformHandle \in PressHandles(e)
           /\ usermode' = ROTATING <=> pointer'.hit.transformHandle.type = "rotate"
           /\ usermode' = RESIZING <=> pointer'.hit.transformHandle.type # "rotate"
           /\ transformingElements' = Snapshot(selectedElements)
           /\ selectedElements' = selectedElements
           /\ pointer'.hit.element = NoElement]_vars

\* a press on a corner handle of the selected rectangle, a point that is also
\* on the rectangle, has started a resize
C5_Witness ==
  /\ pointer # NULL /\ ~pointer.drag.occurred
  /\ usermode = RESIZING
  /\ pointer.hit.transformHandle # NULL
  /\ pointer.hit.transformHandle.type = "nw"
  /\ pointer.origin = XY(0, 20)
  /\ selectedElements = {1} /\ Len(transformingElements) = 1

\* C3: while usermode is CREATING for a text element, no step other than the
\* text-edit surface's onSubmit (no pointer-down, pointer-move or pointer-up,
\* with any tool) takes usermode out of CREATING.
C3_TextCreationPersists ==
  [][(usermode = CREATING /\ EditingText /\ usermode' # CREATING) =>
       \E text \in Texts : WysiwygOnSubmit(text)]_vars

\* the steps in which a held pointer may have moved
IsHeldStep == pointer # NULL /\ pointer' # NULL /\ gestures' = gestures

\* the elements that intersect the marquee the pointer spans after the step
WithinMarquee ==
  {id \in Range(elements) :
     hitTestElementAgainstUnrotatedBox(store[id], MarqueeBox(pointer'))}

\* C6: during marquee selection (usermode IDLE, Selection tool, a press without
\* shift that hit no element) the selected set after every pointer-move is
\* exactly the set of elements that intersect the marquee box spanned by the
\* press point and the pointer: an element that no longer intersects the box
\* is no longer selected.
C6_MarqueeSelectsExactly ==
  [][(IsHeldStep /\ usermode = IDLE /\ activeTool = "Selection"
        /\ ~pointer.shiftKey /\ pointer.hit.element = NoElement) =>
       \A e \in PrimaryEvents :
         onWindowPointerMove(e) => selectedElements' = WithinMarquee]_vars

\* the releases of C7: in DRAGGING, no move since the press
IsClickRelease == IsPointerUp /\ usermode = DRAGGING /\ ~pointer.drag.occurred

\* the presses that start a drag record the topmost element under the cursor,
\* NoElement if there is none, in pointer.hit.element
DragPressRecordsHit ==
  gestures' # gestures =>
    \A e \in PrimaryEvents :
      (onCanvasPointerDown(e) /\ usermode' = DRAGGING /\ activeTool = "Selection") =>
        pointer'.hit.element = PressElement(e)

\* C7 (as the spec states it): a pointer-up in DRAGGING with no move since the
\* press leaves exactly the single element under the cursor at press time
\* selected.
C7_ClickSelectsOneElement ==
  [][/\ DragPressRecordsHit
     /\ IsClickRelease =>
          /\ pointer.hit.element # NoElement
          /\ selectedElements' = {pointer.hit.element}]_vars

\* C7 (amended): a pointer-up in DRAGGING with no move since the press leaves
\* the element under the cursor at press time as the only selected element, or
\* nothing selected when no element was under the cursor, whatever the
\* selection before the press and the modifier keys.
C7_ClickSelectsElementUnderCursor ==
  [][/\ DragPressRecordsHit
     /\ IsClickRelease =>
          selectedElements' = IF pointer.hit.element # NoElement
                              THEN {pointer.hit.element} ELSE {}]_vars

\* a press inside the selection box of two selected elements, on neither of
\* them, waits for its release
C7_Witness ==
  /\ pointer # NULL /\ ~pointer.drag.occurred /\ usermode = DRAGGING
  /\ selectedElements = {1, 2} /\ pointer.hit.element = NoElement
  /\ TopmostAt(screenOffsetToVirtualOffset(pointer.origin)) = NoElement

\* C8: on pointer-up in CREATING a non-text edit target whose box is
\* negligible is removed from the layer and the edit target is cleared; a
\* non-text edit target that is not negligible stays in the layer unchanged
\* and stays the edit target; a text element is never removed.
C8_PointerUpCreating ==
  [][(IsPointerUp /\ usermode = CREATING /\ editingElement # NoElement) =>
       LET element == store[editingElement]
       IN /\ store' = store
          /\ IF element.type # "text" /\ isElementNegligible(element)
             THEN /\ editingElement \notin Range(elements')
                  /\ Len(elements') = Len(elements) - 1
                  /\ editingElement' = NoElement
             ELSE /\ elements' = elements
                  /\ editingElement' = editingElement]_vars

\* the release of a Rectangle-tool press without a move has removed the
\* rectangle it created
C8_Witness ==
  /\ gestures = 1 /\ pointer = NULL /\ usermode = IDLE
  /\ activeTool = "Rectangle"
  /\ Len(store) = 2 /\ store[2].type = "shape" /\ isElementNegligible(store[2])
  /\ elements = <<1>> /\ editingElement = NoElement

\* C9: onSubmit(text) of the text-edit overlay sets the text of the edit
\* target to the submitted value, clears the edit target and sets usermode to
\* IDLE, whatever the usermode before it.
C9_Submit ==
  [][(EditingText /\ pointer' = pointer /\ gestures' = gestures) =>
       \A text \in Texts :
         WysiwygOnSubmit(text) =>
           /\ store'[editingElement].text = text
           /\ \A id \in DOMAIN store : id # editingElement => store'[id] = store[id]
           /\ editingElement' = NoElement
           /\ usermode' = IDLE]_vars

\* a submit of the empty text during a drag press on the edited text element
\* has left usermode IDLE, the pointer still held
C9_Witness ==
  /\ pointer # NULL /\ Len(transformingElements) = 1
  /\ pointer.hit.element = 2
  /\ usermode = IDLE /\ editingElement = NoElement
  /\ Len(store) = 2 /\ store[2].type = "text"
  /\ store[2].text = "" /\ store[2].w = 10

\* C10: a double click makes the topmost element under the cursor the edit
\* target if and only if the Selection tool is active and that element is a
\* text element; in every other case the edit target is unchanged; usermode
\* is never changed.
C10_DblClick ==
  [][(pointer = NULL /\ pointer' = NULL /\ gestures' = gestures) =>
       \A e \in PrimaryEvents :
         onCanvasDblClick(e) =>
           LET under == PressElement(e)
           IN /\ editingElement' =
                   IF activeTool = "Selection" /\ under # NoElement
                        /\ store[under].type = "text"
                   THEN under ELSE editingElement
              /\ usermode' = usermode]_vars

\* a text element created, submitted and then double-clicked with the
\* Selection tool is the edit target again, usermode IDLE
C10_Witness ==
  /\ gestures = 1 /\ pointer = NULL /\ usermode = IDLE
  /\ activeTool = "Selection"
  /\ elements = <<1, 2>> /\ store[1].type = "text" /\ store[2].type = "text"
  /\ editingElement = 2

\* the elements a pointer-move of the current gesture may mutate
GestureTargets ==
  IF usermode = CREATING
  THEN {editingElement} \ {NoElement}
  ELSE {transformingElements[i].element : i \in DOMAIN transformingElements}

\* C11: while a PointerState exists and the active tool is not Hand, a
\* pointer-move in CREATING, DRAGGING, RESIZING or ROTATING mutates only the
\* targets of the gesture (the edit target in CREATING, the transforming
\* elements otherwise) and changes neither the selection set, nor the number
\* of elements, nor usermode.
C11_MoveMutatesOnlyTargets ==
  [][(IsHeldStep /\ activeTool # "Hand"
        /\ usermode \in {CREATING, DRAGGING, RESIZING, ROTATING}) =>
       \A e \in PrimaryEvents :
         onWindowPointerMove(e) =>
           /\ selectedElements' = selectedElements
           /\ elements' = elements
           /\ DOMAIN store' = DOMAIN store
           /\ usermode' = usermode
           /\ editingElement' = editingElement
           /\ \A id \in DOMAIN store :
                store'[id] # store[id] => id \in GestureTargets]_vars

\* a drag has moved the selected rectangle and left the text element, which is
\* not selected, where it was
C11_Witness ==
  /\ pointer # NULL /\ pointer.drag.occurred /\ usermode = DRAGGING
  /\ elements = <<1, 2>> /\ selectedElements = {1}
  /\ Len(transformingElements) = 1
  /\ store[1].x # transformingElements[1].initialElement.x
  /\ store[2] = Catalogue[2]

\* what C12 names: elements, selection, usermode, edit target, scroll offset
\* and selection highlight
StrayFrame ==
  <<store, elements, selectedElements, usermode, editingElement, scrollOffset,
    selectionHighlight>>

\* C12: a pointer-move or pointer-up that arrives while no PointerState exists
\* is handled and changes nothing: elements, selection, usermode, edit target,
\* scroll offset and selection highlight are as before.
C12_StrayEventsIgnored ==
  pointer = NULL =>
    /\ ENABLED onWindowPointerUp
    /\ ~ENABLED (onWindowPointerUp /\ StrayFrame' # StrayFrame)
    /\ \A e \in PrimaryEvents :
         /\ ENABLED onWindowPointerMove(e)
         /\ ~ENABLED (onWindowPointerMove(e) /\ StrayFrame' # StrayFrame)

\* no PointerState after the release of a gesture that created a text element:
\* the next move or release is a stray one
C12_Witness ==
  /\ gestures = 1 /\ pointer = NULL
  /\ usermode = CREATING /\ activeTool = "Text"
  /\ elements = <<1, 2>> /\ editingElement = 2 /\ store[2].type = "text"
  /\ store[1].type = "shape"

\* a processed pointer-up leaves no PointerState, no transforming-element
\* snapshot and no selection highlight
ReleaseClearsGesture ==
  pointer # NULL =>
    ~ENABLED (onWindowPointerUp
                /\ ~(pointer' = NULL /\ transformingElements' = <<>>
                       /\ selectionHighlight' = NULL))

\* C13: a PointerState comes to exist only by a primary-button pointer-down,
\* which always creates one, and ceases to exist only by a pointer-up;
\* immediately after every processed pointer-up the PointerState is null, the
\* list of transforming-element snapshots is empty and the selection highlight
\* is null, so outside a gesture none of the three is set.
C13_GestureScope ==
  /\ [](pointer = NULL =>
          transformingElements = <<>> /\ selectionHighlight = NULL)
  /\ []ReleaseClearsGesture
  /\ [][/\ gestures' # gestures => pointer' # NULL
        /\ (pointer = NULL /\ pointer' # NULL) => gestures' # gestures
        /\ (pointer # NULL /\ pointer' = NULL) =>
             /\ gestures' = gestures
             /\ transformingElements' = <<>>
             /\ selectionHighlight' = NULL]_vars

\* a marquee gesture that selected the rectangle has been released: the
\* highlight it drew is gone
C13_Witness ==
  /\ gestures = 1 /\ pointer = NULL /\ usermode = IDLE
  /\ activeTool = "Selection"
  /\ selectionHighlight = NULL /\ transformingElements = <<>>
  /\ elements = <<1, 2>> /\ selectedElements = {1, 2}
  /\ store[1] = Catalogue[1] /\ store[2] = Catalogue[2]
  /\ editingElement = NoElement

ZoomModifierHeld(e) == e.ctrlKey \/ e.metaKey

\* the zoom one step up or down from the current one, clamped to the bounds
ZoomStepUp == IF zoom + ZOOM_STEP > MAX_ZOOM THEN MAX_ZOOM ELSE zoom + ZOOM_STEP
ZoomStepDown == IF zoom - ZOOM_STEP < MIN_ZOOM THEN MIN_ZOOM ELSE zoom - ZOOM_STEP

ZoomInBounds == MIN_ZOOM <= zoom /\ zoom <= MAX_ZOOM

\* a wheel event without ctrl/meta leaves zoom and scroll offset unchanged; the
\* zoom buttons request one step up and one step down
PlainWheelAndButtons ==
  /\ \A e \in WheelEvents :
       ~ZoomModifierHeld(e) =>
         /\ ENABLED onWindowWheel(e)
         /\ ~ENABLED (onWindowWheel(e)
                        /\ <<zoom, scrollOffset>>' # <<zoom, scrollOffset>>)
  /\ ~ENABLED (handleZoomInAction /\ zoom' # ZoomStepUp)
  /\ ~ENABLED (handleZoomOutAction /\ zoom' # ZoomStepDown)

\* C14 (as the spec states it): the zoom factor stays within
\* [MIN_ZOOM, MAX_ZOOM]; every modifier-held wheel event requests the current
\* zoom plus or minus one ZOOM_STEP, clamped to the bounds; a wheel event
\* without ctrl/meta leaves zoom and scroll offset unchanged.
C14_EveryWheelEventSteps ==
  /\ ZoomInBounds
  /\ PlainWheelAndButtons
  /\ \A e \in WheelEvents :
       ZoomModifierHeld(e) =>
         ~ENABLED (onWindowWheel(e) /\ zoom' \notin {ZoomStepUp, ZoomStepDown})

\* C14 (amended): the zoom factor stays within [MIN_ZOOM, MAX_ZOOM]; a
\* modifier-held wheel event requests the current zoom plus one ZOOM_STEP when
\* deltaY is negative, minus one ZOOM_STEP when deltaY is positive and the
\* current zoom itself when deltaY is 0, clamped to the bounds; the zoom-in
\* and zoom-out actions request one step up and down; a wheel event without
\* ctrl/meta leaves zoom and scroll offset unchanged.
C14_ZoomClamped ==
  /\ ZoomInBounds
  /\ PlainWheelAndButtons
  /\ \A e \in WheelEvents :
       ZoomModifierHeld(e) =>
         ~ENABLED (onWindowWheel(e)
                     /\ zoom' # (IF e.deltaY < 0 THEN ZoomStepUp
                                 ELSE IF e.deltaY > 0 THEN ZoomStepDown
                                 ELSE zoom))

\* the zoom has been stepped up to its upper bound
C14_Witness == zoom = MAX_ZOOM /\ scrollOffset = XY(0, 0)

\* the pointer-moves a drag handles
IsDragMove == IsHeldStep /\ usermode = DRAGGING /\ activeTool # "Hand"

\* the cumulative pointer offset of a move event
MoveOffset(e) == XY(e.clientX - pointer.origin.x, e.clientY - pointer.origin.y)

\* a point rounded to the nearest grid point
SnappedToGrid(p) ==
  XY(RoundDiv(p.x, grid.size) * grid.size, RoundDiv(p.y, grid.size) * grid.size)

\* every transforming element lies at its initial position plus `delta`
DraggedBy(objects, delta) ==
  \A i \in DOMAIN transformingElements :
    LET te == transformingElements[i]
    IN /\ objects[te.element].x = te.initialElement.x + delta.x
       /\ objects[te.element].y = te.initialElement.y + delta.y

\* C15: in DRAGGING, after every pointer-move every transforming element lies
\* at its initialElement position plus one common delta, the cumulative
\* pointer offset of that move, snapped to the grid unless ctrl is held,
\* whatever the moves before it; the move leaves w, h and rotate of every
\* element unchanged; the positions stay so for as long as the drag lasts.
C15_DragFromInitial ==
  /\ [][IsDragMove =>
          \A e \in PrimaryEvents :
            onWindowPointerMove(e) =>
              /\ DraggedBy(store', IF e.ctrlKey THEN MoveOffset(e)
                                    ELSE SnappedToGrid(MoveOffset(e)))
              /\ \A id \in DOMAIN store :
                   /\ store'[id].w = store[id].w
                   /\ store'[id].h = store[id].h
                   /\ store'[id].rotate = store[id].rotate]_vars
  /\ []((usermode = DRAGGING /\ pointer # NULL /\ pointer.drag.occurred) =>
          \/ DraggedBy(store, pointer.drag.offset)
          \/ DraggedBy(store, SnappedToGrid(pointer.drag.offset)))

\* two selected elements have been dragged together off the grid, ctrl held
C15_Witness ==
  /\ usermode = DRAGGING /\ pointer # NULL /\ pointer.drag.occurred
  /\ Len(transformingElements) = 2
  /\ pointer.drag.offset = XY(20, -20)
  /\ store[1].x = Catalogue[1].x + 20 /\ store[1].y = Catalogue[1].y - 20
  /\ store[2].x = Catalogue[2].x + 20 /\ store[2].y = Catalogue[2].y - 20

\* C16 (as the spec states it): the drag handler applied with a zero pointer
\* delta leaves x, y, w, h and rotate of every transforming element equal to
\* those of its initial snapshot, with and without grid snapping.
C16_ZeroDragRestores ==
  [][IsDragMove =>
       \A e \in PrimaryEvents :
         (onWindowPointerMove(e) /\ MoveOffset(e) = XY(0, 0)) =>
           \A i \in DOMAIN transformingElements :
             LET te == transformingElements[i]
             IN /\ store'[te.element].x = te.initialElement.x
                /\ store'[te.element].y = te.initialElement.y
                /\ store'[te.element].w = te.initialElement.w
                /\ store'[te.element].h = te.initialElement.h
                /\ store'[te.element].rotate = te.initialElement.rotate]_vars

\* C16 (amended): the drag handler applied with a zero pointer delta leaves x
\* and y of every transforming element equal to those of its initial snapshot,
\* with and without grid snapping, and leaves w, h and rotate as they were
\* before the move (which are the snapshot's unless the text editor resized
\* the element since the press).
C16_ZeroDragRestoresPosition ==
  [][IsDragMove =>
       \A e \in PrimaryEvents :
         (onWindowPointerMove(e) /\ MoveOffset(e) = XY(0, 0)) =>
           \A i \in DOMAIN transformingElements :
             LET te == transformingElements[i]
                 before == store[te.element]
                 after == store'[te.element]
             IN /\ after.x = te.initialElement.x
                /\ after.y = te.initialElement.y
                /\ <<after.w, after.h, after.rotate>>
                     = <<before.w, before.h, before.rotate>>]_vars

\* the pointer is back at the press point of a drag: the dragged text element
\* is where it was, at the width its edited text gave it during the drag
C16_Witness ==
  /\ usermode = DRAGGING /\ pointer # NULL /\ pointer.drag.occurred
  /\ pointer.drag.offset = XY(0, 0)
  /\ Len(transformingElements) = 1
  /\ LET te == transformingElements[1]
     IN /\ store[te.element].x = te.initialElement.x
        /\ store[te.element].y = te.initialElement.y
        /\ store[te.element].w # te.initialElement.w

\* a pointer-move of a gesture that is creating a shape
IsShapeCreationMove ==
  /\ IsHeldStep /\ usermode = CREATING /\ activeTool # "Hand"
  /\ editingElement # NoElement
  /\ store[editingElement].type = "shape"

C18_ExtentsNonNegative ==
  usermode # CREATING =>
    \A id \in Range(elements) : store[id].w >= 0 /\ store[id].h >= 0

\* a shape drawn from its lower right corner to its upper left one has been
\* released: it is kept with both flips set and positive extents
C18_Witness ==
  /\ usermode # CREATING /\ pointer = NULL
  /\ \E id \in Range(elements) :
       /\ store[id].type = "shape"
       /\ store[id].flippedX /\ store[id].flippedY
       /\ store[id].w > 0 /\ store[id].h > 0
       /\ id \in selectedElements

\* C19: while a shape is being created with size snapping active (ctrl not
\* held on the move event), the element's w and h are both non-zero after
\* every pointer-move: a snapped size of 0 is replaced by the grid size.
C19_SnappedSizeNonZero ==
  [][IsShapeCreationMove =>
       \A e \in PrimaryEvents :
         (~e.ctrlKey /\ onWindowPointerMove(e)) =>
           LET shape == store'[editingElement]
               P == IF pointer.ctrlKey
                    THEN screenOffsetToVirtualOffset(pointer.origin)
                    ELSE SnappedToGrid(screenOffsetToVirtualOffset(pointer.origin))
               Q == SnappedToGrid(XY(P.x + ((MoveOffset(e).x * 10) \div zoom),
                                     P.y + ((MoveOffset(e).y * 10) \div zoom)))
           IN /\ shape.w # 0 /\ shape.h # 0
              /\ shape.w = IF Q.x = P.x THEN grid.size ELSE Abs(Q.x - P.x)
              /\ shape.h = IF Q.y = P.y THEN grid.size ELSE Abs(Q.y - P.y)]_vars

\* the pointer has moved straight down from the press point of a shape, ctrl
\* not held: the shape is one grid cell wide
C19_Witness ==
  /\ usermode = CREATING /\ pointer # NULL /\ pointer.drag.occurred
  /\ pointer.drag.offset.x = 0 /\ pointer.drag.offset.y # 0
  /\ ~pointer.ctrlKey
  /\ editingElement # NoElement
  /\ store[editingElement].type = "shape"
  /\ store[editingElement].w = grid.size
  /\ store[editingElement].h # 0

\* C20: the first path point of every freedraw element is [0,0], during its
\* creation and after it, including after the pointer has moved left of or
\* above the press point.
C20_FirstPathPointIsOrigin ==
  \A id \in Range(elements) :
    store[id].type = "freedraw" => store[id].path[1] = <<0, 0>>

\* the latest call was one of getSurroundingBoundingBox
IsSurroundResult == "rotate" \in DOMAIN selectionHighlight
\* the latest call was one of invertNegativeBoundingBox
IsInvertResult == "didFlipX" \in DOMAIN selectionHighlight

\* C21: getSurroundingBoundingBox returns {x:0, y:0, w:0, h:0, rotate:0} for
\* an empty list; for a single box it returns that box's x, y, w, h and rotate
\* verbatim; for two or more boxes the returned rotate is 0.
C21_SurroundingBoxCases ==
  IsSurroundResult =>
    LET boxes == Objects(elements)
        result == selectionHighlight
    IN /\ Len(boxes) = 0 =>
            result = [x |-> 0, y |-> 0, w |-> 0, h |-> 0, rotate |-> 0]
       /\ Len(boxes) = 1 =>
            /\ DOMAIN result = {"x", "y", "w", "h", "rotate"}
            /\ \A key \in DOMAIN result : result[key] = boxes[1][key]
       /\ Len(boxes) >= 2 => result.rotate = 0

\* a single rotated box, wider than high, has come back as it went in
C21_Witness ==
  /\ IsSurroundResult /\ Len(elements) = 1
  /\ store[elements[1]].rotate = 1
  /\ store[elements[1]].w = 10 /\ store[elements[1]].h = 0
  /\ selectionHighlight = store[elements[1]]

\* C22: for two or more unrotated boxes with non-negative sizes,
\* getSurroundingBoundingBox returns the minimal axis-aligned box covering all
\* of them (x = min x, y = min y, w = max(x+w) - min x, h = max(y+h) - min y),
\* whatever the order of the boxes.
C22_MinimalCoveringBox ==
  (/\ IsSurroundResult /\ Len(elements) >= 2
   /\ \A id \in Range(elements) :
        store[id].rotate = 0 /\ store[id].w >= 0 /\ store[id].h >= 0) =>
    LET covered == {store[id] : id \in Range(elements)}
        left == SetMin({box.x : box \in covered})
        top == SetMin({box.y : box \in covered})
        right == SetMax({box.x + box.w : box \in covered})
        bottom == SetMax({box.y + box.h : box \in covered})
    IN selectionHighlight = [x |-> left, y |-> top, w |-> right - left,
                             h |-> bottom - top, rotate |-> 0]

\* the boxes {0,0,10,10} and {20,20,10,10}, passed lower box first, are
\* covered by {0,0,30,30}
C22_Witness ==
  /\ IsSurroundResult /\ Len(elements) = 2
  /\ store[elements[1]] = [x |-> 20, y |-> 20, w |-> 10, h |-> 10, rotate |-> 0]
  /\ store[elements[2]] = [x |-> 0, y |-> 0, w |-> 10, h |-> 10, rotate |-> 0]
  /\ selectionHighlight = [x |-> 0, y |-> 0, w |-> 30, h |-> 30, rotate |-> 0]

\* C23: for every box, invertNegativeBoundingBox returns a box with w >= 0 and
\* h >= 0 that covers the same region as the input ([x, x+w] and [y, y+h] as
\* intervals), with didFlipX true iff the input w < 0 and didFlipY true iff the
\* input h < 0; a box with non-negative w and h is returned unchanged with
\* both flags false, so applying it twice equals applying it once.
C23_InvertKeepsRegion ==
  IsInvertResult =>
    LET input == store[elements[1]]
        result == selectionHighlight
        again == invertNegativeBoundingBox(result.box)
    IN /\ DOMAIN result.box = {"x", "y", "w", "h"}
       /\ result.box.w >= 0 /\ result.box.h >= 0
       /\ {result.box.x, result.box.x + result.box.w}
            = {input.x, input.x + input.w}
       /\ {result.box.y, result.box.y + result.box.h}
            = {input.y, input.y + input.h}
       /\ result.didFlipX <=> input.w < 0
       /\ result.didFlipY <=> input.h < 0
       /\ (input.w >= 0 /\ input.h >= 0) =>
            /\ \A key \in DOMAIN result.box : result.box[key] = input[key]
            /\ ~result.didFlipX /\ ~result.didFlipY
       /\ again.box = result.box
       /\ ~again.didFlipX /\ ~again.didFlipY

\* the box at (20,20) with w = h = -10 has come back as the box at (10,10)
\* with w = h = 10, both flips reported
C23_Witness ==
  /\ IsInvertResult
  /\ store[elements[1]].x = 20 /\ store[elements[1]].y = 20
  /\ store[elements[1]].w = -10 /\ store[elements[1]].h = -10
  /\ selectionHighlight.box = [x |-> 10, y |-> 10, w |-> 10, h |-> 10]
  /\ selectionHighlight.didFlipX /\ selectionHighlight.didFlipY

\* a step of the design menu
IsDesignStep == store' # store /\ pointer = NULL /\ gestures' = gestures

\* C24: applying a patch to an element never overwrites a field with
\* undefined: for every key whose patch value is undefined the target field
\* keeps its previous value, every key with a defined value is overwritten
\* with that value, and fields not named in the patch are unchanged.
C24_PatchSkipsUndefined ==
  /\ [](\A id \in Range(elements), source \in DesignMutations :
          LET target == store[id]
              result == assignWithoutUndefined(target, source)
          IN /\ DOMAIN result = DOMAIN target
             /\ \A key \in DOMAIN source :
                  result[key] = IF source[key] = undefined THEN target[key]
                                ELSE source[key][1]
             /\ \A key \in DOMAIN target \ DOMAIN source :
                  result[key] = target[key])
  /\ [][IsDesignStep =>
          \A mutations \in DesignMutations :
            onDesignMenuUpdate(getSelectedElements, mutations) =>
              LET first == getSelectedElements[1]
              IN /\ \A key \in DOMAIN mutations :
                      store'[first][key] =
                        IF mutations[key] = undefined THEN store[first][key]
                        ELSE mutations[key][1]
                 /\ \A key \in DOMAIN store[first] \ {"w", "h", "path"} :
                      store'[first][key] = store[first][key]]_vars

\* the rectangle of the scene, 30 wide and high, has been given the width 40
\* by a patch whose h is undefined
C24_Witness ==
  \E id \in Range(elements) :
    /\ store[id].type = "shape"
    /\ store[id].w = 40 /\ store[id].h = 30
    /\ store[id].path = <<>>

\* the secondary-button events
SecondaryEvents == {e \in PointerEvents : e.buttons = 2}

\* C25: opening the context menu supplies exactly one entry decided by the hit
\* test at the cursor: Delete, whose action removes the topmost hit element
\* from the layer, when an element is under the cursor; otherwise Select All,
\* whose action selects every element in the layer.  Opening the menu itself
\* changes neither the elements nor the selection.
C25_ContextMenuEntry ==
  /\ [][contextMenu' # contextMenu =>
          \A e \in SecondaryEvents :
            onCanvasContextMenu(e) =>
              LET hit == TopmostAt(PressCoords(e))
                  items == contextMenu'.items
              IN /\ Len(items) = 1
                 /\ items[1].label = IF hit # NoElement THEN "Delete"
                                     ELSE "Select All"
                 /\ hit # NoElement => items[1].element = hit
                 /\ UNCHANGED <<store, elements, selectedElements>>]_vars
  /\ [][(contextMenu # NULL /\ contextMenu' = contextMenu) =>
          \A i \in DOMAIN contextMenu.items :
            ContextMenuItemExec(contextMenu.items[i]) =>
              IF contextMenu.items[i].label = "Delete"
              THEN /\ contextMenu.items[i].element \notin Range(elements')
                   /\ elements' = SelectSeq(elements,
                        LAMBDA id : id # contextMenu.items[i].element)
                   /\ UNCHANGED <<store, selectedElements>>
              ELSE /\ Range(elements) \subseteq selectedElements'
                   /\ UNCHANGED <<store, elements>>]_vars

\* the menu was opened where two rectangles overlap and its Delete entry has
\* removed the upper one, which lay on top of the lower one that stays
C25_Witness ==
  /\ contextMenu # NULL
  /\ Len(contextMenu.items) = 1
  /\ contextMenu.items[1].label = "Delete"
  /\ contextMenu.items[1].element \notin Range(elements)
  /\ Len(elements) >= 1
  /\ store[contextMenu.items[1].element].type = "shape"
  /\ hitTestCoordsAgainstElement(store[elements[1]],
                                 PressCoords([clientX |-> contextMenu.x,
                                              clientY |-> contextMenu.y]))

\* a freedraw element is being created
CreatingFreedraw ==
  /\ usermode = CREATING /\ pointer # NULL
  /\ editingElement # NoElement
  /\ store[editingElement].type = "freedraw"

\* the point of the canvas a path point of an element stands for
PathPointOnCanvas(element, i) ==
  XY(element.x + element.path[i][1], element.y + element.path[i][2])

\* C26: during freedraw creation every path point is relative to the
\* element's position: after every pointer-move, for each index i, (element.x
\* + path[i].x, element.y + path[i].y) equals the virtual pointer position
\* recorded for that point (the press point for the first, the i-th move for
\* the others), including when the pointer moves left of or above the
\* element's current origin.
C26_PathPointsFollowPointer ==
  /\ [](CreatingFreedraw =>
          LET element == store[editingElement]
          IN /\ PathPointOnCanvas(element, 1)
                  = screenOffsetToVirtualOffset(pointer.origin)
             /\ pointer.drag.occurred =>
                  PathPointOnCanvas(element, Len(element.path))
                    = screenOffsetToVirtualOffset(
                        XY(pointer.origin.x + pointer.drag.offset.x,
                           pointer.origin.y + pointer.drag.offset.y)))
  /\ [][(CreatingFreedraw /\ IsHeldStep) =>
          \A i \in DOMAIN store[editingElement].path :
            PathPointOnCanvas(store'[editingElement], i)
              = PathPointOnCanvas(store[editingElement], i)]_vars

\* the size a patch value gives a field that is `current`
PatchedSize(value, current) == IF value = undefined THEN current ELSE value[1]

\* a size changes by a factor other than 1 (a factor that is not finite
\* counts as 1)
IsRescaled(size, current) == current # 0 /\ size # current

\* `path` scaled from the sizes (w, h) to the sizes (newW, newH), an axis
\* whose factor is not finite left as it is
PathRescaled(path, w, h, newW, newH) ==
  [i \in DOMAIN path |->
     << IF w = 0 THEN path[i][1] ELSE (path[i][1] * newW) \div w,
        IF h = 0 THEN path[i][2] ELSE (path[i][2] * newH) \div h >>]

\* C27: onDesignMenuUpdate applied to a list of several elements with one
\* patch changes the path of a freedraw element only to the rescaling of that
\* element's own path by (newW/oldW, newH/oldH), leaves the path of a freedraw
\* element whose scale factors are both 1 unchanged, and never writes a path
\* onto an element that is not a freedraw, whatever the order of the list.
C27_PathRescaledPerElement ==
  [][IsDesignStep =>
       \A mutations \in DesignMutations :
         onDesignMenuUpdate(getSelectedElements, mutations) =>
           \A id \in Range(getSelectedElements) :
             LET element == store[id]
                 newW == PatchedSize(mutations.w, element.w)
                 newH == PatchedSize(mutations.h, element.h)
             IN IF /\ element.type = "freedraw"
                   /\ (IsRescaled(newW, element.w) \/ IsRescaled(newH, element.h))
                THEN store'[id].path
                       = PathRescaled(element.path, element.w, element.h, newW, newH)
                ELSE store'[id].path = element.path]_vars

\* the design menu's handler rescales the path of `element` under `mutations`
RescalesPath(element, mutations) ==
  /\ element.type = "freedraw"
  /\ \/ IsRescaled(PatchedSize(mutations.w, element.w), element.w)
     \/ IsRescaled(PatchedSize(mutations.h, element.h), element.h)

C29_CreatingHasEditTarget ==
  usermode = CREATING => editingElement # NoElement

\* a text element has been created and the pointer released: pointer-up has
\* read the edit target in its CREATING branch and usermode stays CREATING
C29_Witness ==
  /\ usermode = CREATING /\ pointer = NULL /\ gestures = 1
  /\ activeTool = "Text"
  /\ editingElement # NoElement
  /\ editingElement = elements[Len(elements)]
  /\ store[editingElement].type = "text"
  /\ store[editingElement].text = ""
  /\ selectedElements = {editingElement}

\* C30: usermode is DRAGGING, RESIZING or ROTATING only while a PointerState
\* exists: in every reachable state with no PointerState usermode is IDLE or
\* CREATING and the list of transforming elements is empty.
C30_TransformNeedsPointer ==
  pointer = NULL =>
    /\ usermode \in {IDLE, CREATING}
    /\ transformingElements = <<>>

\* a rotation gesture has ended: an element is rotated, no PointerState is
\* left, usermode is IDLE and no element is transforming
C30_Witness ==
  /\ pointer = NULL /\ gestures = 1
  /\ usermode = IDLE /\ transformingElements = <<>>
  /\ \E id \in Range(elements) : store[id].rotate # 0

\* the cumulative pointer offset of a move event in virtual space
VirtualMoveOffset(e) ==
  XY((MoveOffset(e).x * 10) \div zoom, (MoveOffset(e).y * 10) \div zoom)

\* C31: during DRAGGING with snapping off (ctrl held), after every
\* pointer-move every dragged element lies at its initial position plus the
\* pointer's cumulative screen displacement divided by the current zoom, at
\* every zoom level, so that it stays under the cursor.
C31_DragDividedByZoom ==
  [][IsDragMove =>
       \A e \in PrimaryEvents :
         (e.ctrlKey /\ onWindowPointerMove(e)) =>
           DraggedBy(store', VirtualMoveOffset(e))]_vars

\* the virtual point under the pointer after a step that holds it
PointerPoint ==
  screenOffsetToVirtualOffset(XY(pointer'.origin.x + pointer'.drag.offset.x,
                                 pointer'.origin.y + pointer'.drag.offset.y))

\* C32: during freedraw creation the element's box is the exact bounding box
\* of the stroke.  At the press the box is the press point and the path has
\* one point; every pointer-move extends the box to the component-wise
\* minimum and maximum of the box so far and the pointer position and adds
\* exactly one point to the path; every path point lies within [0,w] x [0,h].
C32_StrokeBoundingBox ==
  /\ [](CreatingFreedraw =>
          LET element == store[editingElement]
          IN /\ ~pointer.drag.occurred =>
                  /\ XY(element.x, element.y)
                       = screenOffsetToVirtualOffset(pointer.origin)
                  /\ element.w = 0 /\ element.h = 0
                  /\ Len(element.path) = 1
             /\ \A i \in DOMAIN element.path :
                  /\ element.path[i][1] \in 0..element.w
                  /\ element.path[i][2] \in 0..element.h)
  /\ [][(CreatingFreedraw /\ IsHeldStep) =>
          LET old == store[editingElement]
              new == store'[editingElement]
          IN /\ new.x = Min(old.x, PointerPoint.x)
             /\ new.y = Min(old.y, PointerPoint.y)
             /\ new.x + new.w = Max(old.x + old.w, PointerPoint.x)
             /\ new.y + new.h = Max(old.y + old.h, PointerPoint.y)
             /\ Len(new.path) = Len(old.path) + 1]_vars

\* a stroke of three points: pressed at (20, 40), moved above and right of the
\* press point to (80, 0), then left of the box to (0, 20)
C32_Witness ==
  /\ CreatingFreedraw /\ pointer.drag.occurred
  /\ Len(store[editingElement].path) = 3
  /\ store[editingElement].x = 0 /\ store[editingElement].y = 0
  /\ store[editingElement].w = 80 /\ store[editingElement].h = 40
  /\ screenOffsetToVirtualOffset(pointer.origin) = XY(20, 40)
  /\ pointer.drag.offset = XY(-20, -20)

\* the tools whose element a press and release without a move does not keep
SizedTools == {"Rectangle", "Ellipse", "Freedraw"}

\* C33: a press immediately followed by a release with the Rectangle, Ellipse
\* or Freedraw tool leaves the scene as it was before the press: the press
\* appends one element, the edit target, to the scene, and the release without
\* a move removes exactly that element and sets usermode to IDLE.
C33_ClickLeavesScene ==
  /\ [][(gestures' # gestures /\ activeTool \in SizedTools) =>
          \A e \in PrimaryEvents :
            onCanvasPointerDown(e) =>
              /\ elements' = Append(elements, editingElement')
              /\ ~pointer'.drag.occurred]_vars
  /\ [][(IsPointerUp /\ usermode = CREATING /\ activeTool \in SizedTools
           /\ ~pointer.drag.occurred) =>
          /\ elements = Append(elements', editingElement)
          /\ usermode' = IDLE]_vars

\* a Freedraw-tool press on a scene of one text element has been released
\* without a move: the one-point stroke is gone from the scene
C33_Witness ==
  /\ gestures = 1 /\ pointer = NULL /\ usermode = IDLE
  /\ activeTool = "Freedraw"
  /\ Len(store) = 2 /\ store[1].type = "text"
  /\ store[2].type = "freedraw" /\ Len(store[2].path) = 1
  /\ elements = <<1>> /\ editingElement = NoElement

\* the place of an element in the scene
ScenePosition(id) == CHOOSE i \in DOMAIN elements : elements[i] = id

IsHitResult == "hit" \in DOMAIN selectionHighlight
\* the latest query was one of getAllElementsWithinBox
IsWithinResult == "within" \in DOMAIN selectionHighlight

\* C35: getFirstElementAtCoords returns, among the elements of the scene
\* whose hit test succeeds at the point, the one latest in scene order, and
\* null when none is hit; getAllElementsWithinBox returns every element that
\* intersects the box, each once, in scene order.
C35_SceneQueries ==
  /\ IsHitResult =>
       LET under == {i \in DOMAIN elements :
                       hitTestCoordsAgainstElement(store[elements[i]],
                                                   selectionHighlight.coords)}
       IN IF under = {}
          THEN selectionHighlight.hit = NoElement
          ELSE \E i \in under :
                 /\ selectionHighlight.hit = elements[i]
                 /\ \A j \in under : j <= i
  /\ IsWithinResult =>
       LET within == selectionHighlight.within
       IN /\ Range(within)
               = {id \in Range(elements) :
                    hitTestElementAgainstUnrotatedBox(store[id],
                                                      selectionHighlight.box)}
          /\ \A i, j \in DOMAIN within :
               i < j => ScenePosition(within[i]) < ScenePosition(within[j])

\* the point (20, 40) lies on both rectangles; the rectangle created first is
\* the upper one of the scene and is the one returned
C35_Witness ==
  /\ IsHitResult
  /\ elements = <<3, 2, 1>>
  /\ selectionHighlight.coords = XY(20, 40)
  /\ hitTestCoordsAgainstElement(store[2], selectionHighlight.coords)
  /\ selectionHighlight.hit = 1

====
